---- MODULE Spec2Model ----
(***************************************************************************)
(* Model of the cache crawl (Cache::fold_item) and of the search-index     *)
(* construction (build_index) of librustdoc/html/render.rs.                *)
(*                                                                         *)
(* The crate tree is consumed in pre-order: FoldCrate / FoldItemEnter run  *)
(* the part of fold_item before the recursion into the children, and       *)
(* FoldItemExit the part after it.  build_index is modelled loop iteration *)
(* by loop iteration (AttachOrphan, AssignParentIdx) and ends in Serialize.*)
(*                                                                         *)
(* Smaller state machines share the module: the search signature of a      *)
(* function (get_index_search_type and its to_json), the ids of a page     *)
(* (derive_id, reset_ids), the order of the items of a module page         *)
(* (name_key), the merge of the crates' indexes into search-index.js       *)
(* (write_shared), the two renderings of a text (render_text), and the     *)
(* emission of the source files (SourceCollector).                         *)
(***************************************************************************)
EXTENDS Naturals, Integers, Sequences, FiniteSets, TLC

VARIABLES
    visits,                \* the calls of fold_item so far, in order: the item, and the path
                           \* stack, stripped flag, enclosing type and trait-impl flag it met
    frames,                \* activation records of fold_item (its locals across the recursion)
    crate_kind,            \* which family of crate trees is documented (an input of run())
    krate,                 \* the crate tree that fold_crate returns
    access_levels,         \* Cache.access_levels: the identifiers that are public
    stack,                 \* Cache.stack
    parent_stack,          \* Cache.parent_stack
    parent_is_trait_impl,  \* Cache.parent_is_trait_impl
    stripped_mod,          \* Cache.stripped_mod
    paths,                 \* Cache.paths
    traits,                \* Cache.traits (its key set)
    implementors,          \* Cache.implementors
    impls,                 \* Cache.impls
    search_index,          \* Cache.search_index
    orphan_impl_items,     \* Cache.orphan_impl_items
    pc,                    \* position in run(): "crawl", "orphans", "compact", "serialize", "done", "panic"
    cursor,                \* position of the running for-loop of build_index
    nodeid_to_pathid,      \* build_index local
    crate_paths,           \* build_index local
    crate_items,           \* build_index local
    lastpath,              \* build_index local
    lastpathid,            \* build_index local
    decl,                  \* the item whose signature get_index_search_type encodes
    search_type,           \* IndexItem.search_type of that item, once computed
    sig_json,              \* its serialization, once computed
    used_ids,              \* USED_ID_MAP
    embedded,              \* whether the map was last set to init_ids() or to the empty map
    derived,               \* the ids that derive_id returned since the map was last reset
    asked,                 \* the candidates of these calls, in order
    prior_calls,           \* the number of calls of derive_id before the last reset since
                           \* the reset before it
    names,                 \* the names of the two items that item_module::cmp compares
    keys,                  \* their name_key, once computed
    ordering,              \* the Ordering that cmp returns for them, once computed
    index_file,            \* the lines of search-index.js in the output directory
    lock,                  \* the builder that holds the lock on the output directory
    builders,              \* each builder's crate and index, its position in write_shared
                           \* and its local all_indexes
    built,                 \* the crate and index of the builders that rewrote the file, in order
    text,                  \* render_text: its position, its local orig_used_id_map, and the
                           \* map and the candidates that each of the two renderings met
    sources                \* SourceCollector: scx.include_sources, scx.local_sources, the
                           \* calls of emit_source that reached the file system, in order

cachevars == <<visits, frames, crate_kind, krate, access_levels, stack, parent_stack,
               parent_is_trait_impl, stripped_mod, paths, traits, implementors, impls,
               search_index, orphan_impl_items, pc, cursor, nodeid_to_pathid, crate_paths,
               crate_items, lastpath, lastpathid>>
sigvars == <<decl, search_type, sig_json>>
idvars == <<used_ids, embedded, derived, asked, prior_calls>>
keyvars == <<names, keys, ordering>>
sharedvars == <<index_file, lock, builders, built>>
textvars == <<text>>
srcvars == <<sources>>
vars == <<cachevars, sigvars, idvars, keyvars, sharedvars, textvars, srcvars>>

----------------------------------------------------------------------------
(* Bounds of the explored inputs.                                          *)

\* number of declarations in the crate tree, the root module included
MaxItems == 6
\* nesting depth of modules below the root module
MaxModuleDepth == 1

\* places at which one declaration shows in the tree (itself and its re-exports)
MaxSightings == 2

----------------------------------------------------------------------------
(* Option values.                                                          *)

None == [some |-> FALSE]
Some(x) == [some |-> TRUE, v |-> x]

\* Option<DefId>::None
NoDid == "-"

Last(s) == s[Len(s)]
\* &s[..s.len() - 1]
Front(s) == SubSeq(s, 1, Len(s) - 1)

\* <[String]>::join(sep)
RECURSIVE Join(_, _)
Join(s, sep) ==
    IF s = <<>> THEN ""
    ELSE IF Len(s) = 1 THEN s[1]
    ELSE s[1] \o sep \o Join(Tail(s), sep)

\* FxHashMap::insert
MapInsert(m, k, x) == [d \in DOMAIN m \cup {k} |-> IF d = k THEN x ELSE m[d]]

\* FxHashMap::entry(k).or_insert(vec![]).push(x)
MapPush(m, k, x) ==
    [d \in DOMAIN m \cup {k} |->
        IF d = k THEN (IF k \in DOMAIN m THEN Append(m[k], x) ELSE <<x>>) ELSE m[d]]

EmptyMap == [d \in {} |-> d]

----------------------------------------------------------------------------
(* The declaration tree (clean::Item) and the inputs that are explored.    *)

\* name of the documented crate (krate.name)
KrateName == "k"
\* DefId.index of a crate's root module
CRATE_DEF_INDEX == "crate"
\* name of a crate that is in krate.masked_crates
MaskedKrate == "dep"
\* Cache.masked_crates
masked_crates == {MaskedKrate}
\* Cache.primitive_locations: primitive type -> DefId of its documentation
primitive_locations == [p \in {"u8"} |-> "P8"]

\* DefId.krate
KrateOf(did) == IF did \in {"X", "TX", "x1", "x2"} THEN MaskedKrate ELSE KrateName

\* clean::Type, as far as fold_item looks at it
ResolvedPath(did) == [t |-> "ResolvedPath", did |-> did]
Generic == [t |-> "Generic", did |-> NoDid]
Primitive(p) == [t |-> "Primitive", did |-> p]
BorrowedRef(did) == [t |-> "BorrowedRef", did |-> did]
\* clean::Type::def_id()
TypeDefId(ty) == IF ty.t = "ResolvedPath" THEN Some(ty.did) ELSE None
\* clean::Type::primitive_type()
PrimitiveType(ty) == IF ty.t = "Primitive" THEN Some(ty.did) ELSE None

\* clean::Item; boxed is the inner of a StrippedItem; for_ and trait_ are those of an
\* ImplItem, generics the DefIds of the type arguments of its trait
Item(inner, boxed, def_id, name, for_, trait_) ==
    [inner |-> inner, boxed |-> boxed, def_id |-> def_id, name |-> name,
     visibility |-> Some("Public"), for_ |-> for_, trait_ |-> trait_, generics |-> {}]

Plain(inner, def_id, name) == Item(inner, "-", def_id, Some(name), Generic, None)

\* the root module of the crate: its name is the empty string
RootItem == Plain("ModuleItem", CRATE_DEF_INDEX, "")

\* the modules below the root, in the order in which the tree holds them; each
\* is a public module or one that the strip passes have wrapped
ModuleNames == <<"m", "n">>
ModuleItems(n) ==
    {Plain("ModuleItem", n, n), Item("StrippedItem", "ModuleItem", n, Some(n), Generic, None)}

\* a struct S and a type alias A; a re-export shows either at several places
TypeItems == {Plain("StructItem", "S", "S"), Plain("TypedefItem", "A", "A")}
TypeIds == {i.def_id : i \in TypeItems}

\* the impl blocks: each has its own DefId and is part of the tree once
ImplIds == <<"i1", "i2">>
ImplShapes ==
    {[for_ |-> ResolvedPath("S"), trait_ |-> None],
     [for_ |-> ResolvedPath("A"), trait_ |-> None],
     [for_ |-> ResolvedPath("S"), trait_ |-> Some("T")]}
ImplItem(id, shape) == Item("ImplItem", "-", id, None, shape.for_, shape.trait_)

\* the members of an impl block: a method, an associated const and an associated
\* type (TypedefItem(_, true)), named per block
MethodName(id) == IF id \in {"i1", "x1"} THEN "f" ELSE "g"
ConstName(id) == IF id \in {"i1", "x1"} THEN "C" ELSE "D"
TypeName(id) == IF id \in {"i1", "x1"} THEN "Out" ELSE "Err"
MemberItems(id) ==
    {Plain("MethodItem", MethodName(id), MethodName(id)),
     Plain("AssociatedConstItem", ConstName(id), ConstName(id)),
     Plain("AssocTypedefItem", TypeName(id), TypeName(id))}

\* the field x of struct id
FieldItem(id) == Plain("StructFieldItem", id \o "::x", "x")

IsModule(item) ==
    \/ item.inner = "ModuleItem"
    \/ item.inner = "StrippedItem" /\ item.boxed = "ModuleItem"

VisitedIds == {visits[i].item.def_id : i \in DOMAIN visits}
NumModules == Cardinality({i \in DOMAIN visits : IsModule(visits[i].item)}) - 1
NumSightings(did) == Cardinality({i \in DOMAIN visits : visits[i].item.def_id = did})
NumImpls == Cardinality({i \in DOMAIN visits : visits[i].item.inner = "ImplItem"})

\* impl blocks of a crate that depends on a masked crate: of a local or a masked
\* trait, for a local type, a type of the masked crate, a primitive with or
\* without a documentation page, a type parameter, or a reference to a local type; `masked` tells that the
\* impl itself was inlined from the masked crate
MaskedImplIds == <<"x1", "x2">>
RegistryShapes ==
    {[for_ |-> ResolvedPath("S"), trait_ |-> Some("T"), generics |-> {}, masked |-> FALSE],
     [for_ |-> ResolvedPath("S"), trait_ |-> Some("T"), generics |-> {}, masked |-> TRUE],
     [for_ |-> ResolvedPath("X"), trait_ |-> Some("T"), generics |-> {}, masked |-> FALSE],
     [for_ |-> ResolvedPath("S"), trait_ |-> Some("TX"), generics |-> {}, masked |-> FALSE],
     [for_ |-> ResolvedPath("S"), trait_ |-> None, generics |-> {}, masked |-> FALSE],
     [for_ |-> Primitive("u8"), trait_ |-> None, generics |-> {}, masked |-> FALSE],
     [for_ |-> Generic, trait_ |-> Some("T"), generics |-> {}, masked |-> FALSE],
     [for_ |-> BorrowedRef("S"), trait_ |-> Some("T"), generics |-> {}, masked |-> FALSE],
     [for_ |-> Primitive("str"), trait_ |-> Some("T"), generics |-> {"G"}, masked |-> FALSE]}
RegistryImpl(n, shape) ==
    [ImplItem(IF shape.masked THEN MaskedImplIds[n] ELSE ImplIds[n], shape)
        EXCEPT !.generics = shape.generics]

\* the children in a crate of kind "impls"
RegistryChildren(parent) ==
    IF IsModule(parent) THEN
        (IF Len(frames) <= MaxModuleDepth /\ NumModules < Len(ModuleNames)
         THEN ModuleItems(ModuleNames[NumModules + 1])
         ELSE {})
        \cup {i \in TypeItems : i.def_id = "S" /\ NumSightings("S") < MaxSightings}
        \cup (IF NumImpls < Len(ImplIds)
              THEN {RegistryImpl(NumImpls + 1, sh) : sh \in RegistryShapes}
              ELSE {})
    ELSE IF parent.inner = "ImplItem" THEN
        {i \in MemberItems(parent.def_id) : i.inner = "MethodItem" /\ i.def_id \notin VisitedIds}
    ELSE {}

\* types with a body: struct S with field x, enum E with variant V, trait T with
\* the associated type Ty and the associated const K
BodyItems ==
    {Plain("StructItem", "S", "S"), Plain("EnumItem", "E", "E"), Plain("TraitItem", "T", "T")}
VariantItem(id) == Plain("VariantItem", id \o "::V", "V")
AssocTypeItem(id) == Plain("AssociatedTypeItem", id \o "::Ty", "Ty")
AssocConstItem(id) == Plain("AssociatedConstItem", id \o "::K", "K")

\* the children in a crate of kind "bodies"; a body is handed over in its order
BodyChildren(parent) ==
    IF IsModule(parent) THEN
        (IF Len(frames) <= MaxModuleDepth /\ NumModules < Len(ModuleNames)
         THEN ModuleItems(ModuleNames[NumModules + 1])
         ELSE {})
        \cup {i \in BodyItems : NumSightings(i.def_id) < MaxSightings}
    ELSE IF parent.inner = "StructItem" /\ Last(visits).item = parent THEN
        {FieldItem(parent.def_id)}
    ELSE IF parent.inner = "EnumItem" /\ Last(visits).item = parent THEN
        {VariantItem(parent.def_id)}
    ELSE IF parent.inner = "TraitItem" /\ Last(visits).item = parent THEN
        {AssocTypeItem(parent.def_id), AssocConstItem(parent.def_id)}
    ELSE IF parent.inner = "TraitItem" /\ Last(visits).item = AssocTypeItem(parent.def_id) THEN
        {AssocConstItem(parent.def_id)}
    ELSE {}

\* the items that fold_item_recur can hand to fold_item below parent
Children(parent) ==
    IF crate_kind = "impls" THEN RegistryChildren(parent)
    ELSE IF crate_kind = "bodies" THEN BodyChildren(parent)
    ELSE IF IsModule(parent) THEN
        (IF Len(frames) <= MaxModuleDepth /\ NumModules < Len(ModuleNames)
         THEN ModuleItems(ModuleNames[NumModules + 1])
         ELSE {})
        \cup {i \in TypeItems : NumSightings(i.def_id) < MaxSightings}
        \cup (IF NumImpls < Len(ImplIds)
              THEN {ImplItem(ImplIds[NumImpls + 1], sh) : sh \in ImplShapes}
              ELSE {})
    ELSE IF parent.inner = "ImplItem" THEN
        {i \in MemberItems(parent.def_id) : i.def_id \notin VisitedIds}
    ELSE IF parent.inner = "StructItem" /\ Last(visits).item = parent THEN
        {FieldItem(parent.def_id)}
    ELSE {}

\* ItemType::from(&clean::Item), through StrippedItem
ItemType(inner) ==
    CASE inner = "ModuleItem" -> "Module"
      [] inner = "StructItem" -> "Struct"
      [] inner = "UnionItem" -> "Union"
      [] inner = "EnumItem" -> "Enum"
      [] inner = "TraitItem" -> "Trait"
      [] inner = "FunctionItem" -> "Function"
      [] inner = "TypedefItem" -> "Typedef"
      [] inner = "AssocTypedefItem" -> "Typedef"
      [] inner = "ImplItem" -> "Impl"
      [] inner = "MethodItem" -> "Method"
      [] inner = "TyMethodItem" -> "TyMethod"
      [] inner = "StructFieldItem" -> "StructField"
      [] inner = "VariantItem" -> "Variant"
      [] inner = "AssociatedConstItem" -> "AssociatedConst"
      [] inner = "AssociatedTypeItem" -> "AssociatedType"
      [] inner = "PrimitiveItem" -> "Primitive"
      [] inner = "ForeignTypeItem" -> "ForeignType"
      [] OTHER -> "Unknown"

type_(item) == IF item.inner = "StrippedItem" THEN ItemType(item.boxed) ELSE ItemType(item.inner)

\* clean::Item::doc_value, as lines: fields have no documentation, every other
\* named item has a summary of two lines after a blank one, and details
doc_value(item) ==
    IF item.name.some /\ item.inner # "StructFieldItem"
    THEN Some(<<" ", "About " \o item.name.v, "in short.", "", "Details.">>)
    ELSE None

\* chars().all(|c| c.is_whitespace()) of the explored lines
Blank(line) == line \in {"", " "}

\* skip_while(|s| s.chars().all(|c| c.is_whitespace()))
RECURSIVE SkipBlank(_)
SkipBlank(lines) ==
    IF lines # <<>> /\ Blank(Head(lines)) THEN SkipBlank(Tail(lines)) ELSE lines

\* take_while(|line| line.chars().any(|chr| !chr.is_whitespace()))
RECURSIVE TakeNonBlank(_)
TakeNonBlank(lines) ==
    IF lines = <<>> \/ Blank(Head(lines)) THEN <<>>
    ELSE <<Head(lines)>> \o TakeNonBlank(Tail(lines))

\* fn shorter(s: Option<&str>) -> String, before the lines are joined
shorter(s) == IF s.some THEN TakeNonBlank(SkipBlank(s.v)) ELSE <<>>

\* markdown::plain_summary_line of a line of text without markup
markdown_plain_summary_line(line) == line

\* fn plain_summary_line: shorter(s) joined by "\n", with "\n" replaced by " "
plain_summary_line(s) == markdown_plain_summary_line(Join(shorter(s), " "))

----------------------------------------------------------------------------
(* Cache::fold_item, the part before the recursion into the children.      *)

\* match on StrippedItem(box ModuleItem(..)): the stripped flag while the item is visited
StrippedMod(item, sm) ==
    IF item.inner = "StrippedItem" /\ item.boxed = "ModuleItem" THEN TRUE ELSE sm

\* "Propagate a trait method's documentation": traits.entry(def_id).or_insert_with(..)
TraitsAfter(item, tr) ==
    IF item.inner = "TraitItem" THEN tr \cup {item.def_id} ELSE tr

\* variant: the masks are not consulted
ImplementorsAfter_NoMask(item, im) ==
    IF item.inner = "ImplItem" /\ item.trait_.some
    THEN MapPush(im, item.trait_.v, [def_id |-> item.def_id, impl_ |-> item])
    ELSE im

\* variant: the crate of the trait is looked up instead of the crate of the impl
ImplementorsAfter_MaskByTrait(item, im) ==
    IF /\ item.inner = "ImplItem"
       /\ item.trait_.some
       /\ KrateOf(item.trait_.v) \notin masked_crates
       /\ (TypeDefId(item.for_).some => KrateOf(TypeDefId(item.for_).v) \notin masked_crates)
    THEN MapPush(im, item.trait_.v, [def_id |-> item.def_id, impl_ |-> item])
    ELSE im

\* "Collect all the implementors of traits"
ImplementorsAfter(item, im) ==
    IF /\ item.inner = "ImplItem"
       /\ KrateOf(item.def_id) \notin masked_crates
       /\ item.trait_.some
       /\ (TypeDefId(item.for_).some => KrateOf(TypeDefId(item.for_).v) \notin masked_crates)
    THEN MapPush(im, item.trait_.v, [def_id |-> item.def_id, impl_ |-> item])
    ELSE im

\* the kinds whose recorded path is the defining path of an impl's subject
NominalTypes == {"Trait", "Struct", "Union", "Enum"}

\* variant: a subject that has no path yet is given the lexical stack
MemberPath_UnknownLexical(did, st, pa) ==
    IF did \in DOMAIN pa /\ pa[did].ty \in NominalTypes THEN Some(Front(pa[did].fqp))
    ELSE Some(st)

\* variant: the recorded path is used whatever the kind of the subject
MemberPath_IgnoreKind(did, st, pa) ==
    IF did \in DOMAIN pa THEN Some(Front(pa[did].fqp)) ELSE None

\* variant: the lexical stack is used whenever the subject is known
MemberPath_Lexical(did, st, pa) ==
    IF did \in DOMAIN pa THEN Some(st) ELSE None

\* the path of a method or associated const: match self.paths.get(&did)
MemberPath(did, st, pa) ==
    IF did \in DOMAIN pa
    THEN (IF pa[did].ty \in NominalTypes THEN Some(Front(pa[did].fqp)) ELSE Some(st))
    ELSE None

\* variant: associated items of trait impls are treated like those of inherent impls
IndexParent_NoTraitImplSkip(item, st, ps, pa, trait_impl) ==
    IF item.inner = "StrippedItem" THEN
        [parent |-> None, path |-> None, is_inherent_impl_item |-> FALSE]
    ELSE IF item.inner \in {"AssociatedTypeItem", "TyMethodItem", "StructFieldItem",
                            "VariantItem"} THEN
        [parent |-> Some(Last(ps)), path |-> Some(Front(st)), is_inherent_impl_item |-> FALSE]
    ELSE IF item.inner \in {"MethodItem", "AssociatedConstItem"} THEN
        IF ps = <<>>
        THEN [parent |-> None, path |-> None, is_inherent_impl_item |-> FALSE]
        ELSE [parent |-> Some(Last(ps)), path |-> MemberPath(Last(ps), st, pa),
              is_inherent_impl_item |-> TRUE]
    ELSE [parent |-> None, path |-> Some(st), is_inherent_impl_item |-> FALSE]

\* variant: a declaration of a type's body gets the whole stack as its path
IndexParent_FullStack(item, st, ps, pa, trait_impl) ==
    IF item.inner = "StrippedItem" THEN
        [parent |-> None, path |-> None, is_inherent_impl_item |-> FALSE]
    ELSE IF item.inner \in {"AssociatedConstItem", "AssocTypedefItem"} /\ trait_impl THEN
        [parent |-> None, path |-> None, is_inherent_impl_item |-> FALSE]
    ELSE IF item.inner \in {"AssociatedTypeItem", "TyMethodItem", "StructFieldItem",
                            "VariantItem"} THEN
        [parent |-> Some(Last(ps)), path |-> Some(st), is_inherent_impl_item |-> FALSE]
    ELSE IF item.inner \in {"MethodItem", "AssociatedConstItem"} THEN
        IF ps = <<>>
        THEN [parent |-> None, path |-> None, is_inherent_impl_item |-> FALSE]
        ELSE [parent |-> Some(Last(ps)), path |-> MemberPath(Last(ps), st, pa),
              is_inherent_impl_item |-> TRUE]
    ELSE [parent |-> None, path |-> Some(st), is_inherent_impl_item |-> FALSE]

\* let (parent, is_inherent_impl_item) = match item.inner { .. }
IndexParent(item, st, ps, pa, trait_impl) ==
    IF item.inner = "StrippedItem" THEN
        [parent |-> None, path |-> None, is_inherent_impl_item |-> FALSE]
    ELSE IF item.inner \in {"AssociatedConstItem", "AssocTypedefItem"} /\ trait_impl THEN
        \* skip associated items in trait impls
        [parent |-> None, path |-> None, is_inherent_impl_item |-> FALSE]
    ELSE IF item.inner \in {"AssociatedTypeItem", "TyMethodItem", "StructFieldItem",
                            "VariantItem"} THEN
        [parent |-> Some(Last(ps)), path |-> Some(Front(st)), is_inherent_impl_item |-> FALSE]
    ELSE IF item.inner \in {"MethodItem", "AssociatedConstItem"} THEN
        IF ps = <<>>
        THEN [parent |-> None, path |-> None, is_inherent_impl_item |-> FALSE]
        ELSE [parent |-> Some(Last(ps)), path |-> MemberPath(Last(ps), st, pa),
              is_inherent_impl_item |-> TRUE]
    ELSE [parent |-> None, path |-> Some(st), is_inherent_impl_item |-> FALSE]

\* struct IndexItem, as pushed by fold_item and by build_index (parent_idx: None)
IndexItem(item, name, path, parent) ==
    [ty |-> type_(item), name |-> name, path |-> Join(path, "::"),
     desc |-> plain_summary_line(doc_value(item)),
     parent |-> parent, parent_idx |-> None]

\* variant: the root module is indexed like any other module
IndexArm_RootIndexed(item, p, sm) ==
    IF ~item.name.some THEN "skip"
    ELSE IF p.path.some /\ (p.is_inherent_impl_item \/ ~sm) THEN "index"
    ELSE IF p.parent.some /\ ~p.path.some /\ p.is_inherent_impl_item THEN "orphan"
    ELSE "skip"

\* variant: below a stripped module nothing is indexed and nothing is set aside
IndexArm_StrippedSkips(item, p, sm) ==
    IF ~item.name.some \/ sm THEN "skip"
    ELSE IF p.path.some THEN
        (IF item.def_id # CRATE_DEF_INDEX THEN "index" ELSE "skip")
    ELSE IF p.parent.some /\ p.is_inherent_impl_item THEN "orphan"
    ELSE "skip"

\* which arm of `match parent { .. }` is taken: "index", "orphan" or "skip"
IndexArm(item, p, sm) ==
    IF ~item.name.some THEN "skip"
    ELSE IF p.path.some /\ (p.is_inherent_impl_item \/ ~sm) THEN
        (IF item.def_id # CRATE_DEF_INDEX THEN "index" ELSE "skip")
    ELSE IF p.parent.some /\ ~p.path.some /\ p.is_inherent_impl_item THEN "orphan"
    ELSE "skip"

\* "Index this method for searching later on": self.search_index.push(..)
SearchIndexAfter(item, p, sm, si) ==
    IF IndexArm(item, p, sm) = "index"
    THEN Append(si, IndexItem(item, item.name.v, p.path.v, p.parent))
    ELSE si

\* variant: a member of a known type is recorded as an orphan as well
OrphansAfter_Always(item, p, sm, orphans) ==
    IF item.name.some /\ p.parent.some /\ p.is_inherent_impl_item
    THEN Append(orphans, [did |-> p.parent.v, item |-> item])
    ELSE orphans

\* self.orphan_impl_items.push((parent, item.clone()))
OrphansAfter(item, p, sm, orphans) ==
    IF IndexArm(item, p, sm) = "orphan"
    THEN Append(orphans, [did |-> p.parent.v, item |-> item])
    ELSE orphans

\* "Keep track of the fully qualified path for this item"
Pushed(item) == item.name.some /\ item.name.v # ""
StackAfter(item, st) == IF Pushed(item) THEN Append(st, item.name.v) ELSE st

\* the kinds that have a page of their own and so a path
PathKinds ==
    {"StructItem", "EnumItem", "TypedefItem", "AssocTypedefItem", "TraitItem",
     "FunctionItem", "ModuleItem", "ForeignFunctionItem", "ForeignStaticItem",
     "ConstantItem", "StaticItem", "UnionItem", "ForeignTypeItem"}

\* variant: an entry, once present, is never replaced
InsertsPath_FirstOnly(item, sm, pa, al) ==
    /\ item.inner \in PathKinds
    /\ ~sm
    /\ item.def_id \notin DOMAIN pa

\* variant: the stripped flag is not consulted
InsertsPath_IgnoreStripped(item, sm, pa, al) ==
    /\ item.inner \in PathKinds
    /\ (item.def_id \notin DOMAIN pa \/ item.def_id \in al)

\* the guard of the first arm of the match that maintains self.paths
InsertsPath(item, sm, pa, al) ==
    /\ item.inner \in PathKinds
    /\ ~sm
    /\ (item.def_id \notin DOMAIN pa \/ item.def_id \in al)

\* variant: a variant that has a path keeps it unless it is public
PathsAfter_VariantFirstWins(item, st, sm, pa, al) ==
    IF InsertsPath(item, sm, pa, al)
    THEN MapInsert(pa, item.def_id, [fqp |-> st, ty |-> type_(item)])
    ELSE IF item.inner \in PathKinds THEN pa
    ELSE IF item.inner = "VariantItem" /\ ~sm
            /\ (item.def_id \notin DOMAIN pa \/ item.def_id \in al)
    THEN MapInsert(pa, item.def_id, [fqp |-> Front(st), ty |-> "Enum"])
    ELSE IF item.inner = "PrimitiveItem" /\ item.visibility.some
    THEN MapInsert(pa, item.def_id, [fqp |-> st, ty |-> type_(item)])
    ELSE pa

\* match item.inner { .. }: self.paths after the visit; st is the stack with the name pushed
PathsAfter(item, st, sm, pa, al) ==
    IF InsertsPath(item, sm, pa, al)
    THEN MapInsert(pa, item.def_id, [fqp |-> st, ty |-> type_(item)])
    ELSE IF item.inner \in PathKinds THEN pa
    ELSE IF item.inner = "VariantItem" /\ ~sm
    THEN MapInsert(pa, item.def_id, [fqp |-> Front(st), ty |-> "Enum"])
    ELSE IF item.inner = "PrimitiveItem" /\ item.visibility.some
    THEN MapInsert(pa, item.def_id, [fqp |-> st, ty |-> type_(item)])
    ELSE pa

\* "Maintain the parent stack": the DefId pushed on self.parent_stack, if any
ParentDid(item) ==
    IF item.inner \in {"TraitItem", "EnumItem", "ForeignTypeItem", "StructItem", "UnionItem"}
    THEN Some(item.def_id)
    ELSE IF item.inner = "ImplItem" THEN
        IF item.for_.t = "ResolvedPath" THEN Some(item.for_.did)
        ELSE IF PrimitiveType(item.for_).some
                /\ PrimitiveType(item.for_).v \in DOMAIN primitive_locations
        THEN Some(primitive_locations[PrimitiveType(item.for_).v])
        ELSE None
    ELSE None

\* self.parent_is_trait_impl while the children are visited
TraitImplAfter(item, trait_impl) ==
    IF item.inner \in {"TraitItem", "EnumItem", "ForeignTypeItem", "StructItem", "UnionItem"}
    THEN FALSE
    ELSE IF item.inner = "ImplItem" THEN item.trait_.some
    ELSE trait_impl

UnchangedIndexLocals ==
    UNCHANGED <<cursor, nodeid_to_pathid, crate_paths, crate_items, lastpath, lastpathid>>

\* the crawl and build_index neither encode a signature here nor derive ids
UnchangedPageState == UNCHANGED <<sigvars, idvars, keyvars, sharedvars, textvars, srcvars>>

\* fold_item up to the call of fold_item_recur
Enter(item) ==
    LET sm == StrippedMod(item, stripped_mod)
        p  == IndexParent(item, stack, parent_stack, paths, parent_is_trait_impl)
        st == StackAfter(item, stack)
        pd == ParentDid(item)
    IN  /\ stripped_mod' = sm
        /\ traits' = TraitsAfter(item, traits)
        /\ implementors' = ImplementorsAfter(item, implementors)
        /\ search_index' = SearchIndexAfter(item, p, sm, search_index)
        /\ orphan_impl_items' = OrphansAfter(item, p, sm, orphan_impl_items)
        /\ stack' = st
        /\ paths' = PathsAfter(item, st, sm, paths, access_levels)
        /\ parent_stack' = IF pd.some THEN Append(parent_stack, pd.v) ELSE parent_stack
        /\ parent_is_trait_impl' = TraitImplAfter(item, parent_is_trait_impl)
        /\ frames' = Append(frames,
                [item |-> item,
                 orig_stripped_mod |-> stripped_mod,
                 orig_parent_is_trait_impl |-> parent_is_trait_impl,
                 pushed |-> Pushed(item),
                 parent_pushed |-> pd.some,
                 kids |-> <<>>,
                 \* the state that the visit found, kept for the comparison at its return
                 entry |-> [stack |-> stack, parent_stack |-> parent_stack,
                            stripped_mod |-> stripped_mod,
                            parent_is_trait_impl |-> parent_is_trait_impl]])
        /\ visits' = Append(visits,
                [item |-> item, stack |-> st, stripped_mod |-> sm,
                 parent |-> IF parent_stack = <<>> THEN None ELSE Some(Last(parent_stack)),
                 trait_impl |-> parent_is_trait_impl])
        /\ UNCHANGED <<crate_kind, krate, access_levels, impls, pc>>
        /\ UnchangedIndexLocals
        /\ UnchangedPageState

\* cache.fold_crate(krate): fold_item on the root module
FoldCrate ==
    /\ pc = "crawl"
    /\ visits = <<>>
    /\ Enter(RootItem)

\* fold_item_recur hands the next child of the item being visited to fold_item
FoldItemEnter ==
    /\ pc = "crawl"
    /\ frames # <<>>
    /\ Len(visits) < MaxItems
    /\ \E item \in Children(Last(frames).item) : Enter(item)

----------------------------------------------------------------------------
(* Cache::fold_item, the part after the recursion.                         *)

\* variant: an impl of a masked crate's trait is keyed like any other
TargetDids_IgnoreMask(item) ==
    IF item.for_.t = "ResolvedPath" THEN {item.for_.did}
    ELSE IF item.for_.t = "BorrowedRef" /\ item.for_.did # NoDid THEN {item.for_.did}
    ELSE IF PrimitiveType(item.for_).some
            /\ PrimitiveType(item.for_).v \in DOMAIN primitive_locations
    THEN {primitive_locations[PrimitiveType(item.for_).v]}
    ELSE {}

\* Impl::inner_impl: the clean::Impl of a record, or the panic "non-impl item
\* found in impl"
inner_impl(record) ==
    IF record.impl_item.inner = "ImplItem"
    THEN [panic |-> FALSE, impl_ |-> record.impl_item]
    ELSE [panic |-> TRUE]

\* "hoard off all the implementations elsewhere": the keys the impl is stored under
TargetDids(item) ==
    LET masked_trait == item.trait_.some /\ KrateOf(item.trait_.v) \in masked_crates
    IN  IF masked_trait THEN {}
        ELSE IF item.for_.t = "ResolvedPath" THEN {item.for_.did}
        ELSE IF item.for_.t = "BorrowedRef" /\ item.for_.did # NoDid THEN {item.for_.did}
        ELSE IF PrimitiveType(item.for_).some
                /\ PrimitiveType(item.for_).v \in DOMAIN primitive_locations
        THEN {primitive_locations[PrimitiveType(item.for_).v]}
        ELSE {}

\* dids: the key of the target and the DefIds of the trait's type arguments
ImplDids(item) == TargetDids(item) \cup item.generics

\* variant: the record wraps the first member of the impl
ImplsAfter_StoresMember(item, kids, im) ==
    LET stored == IF kids = <<>> THEN item ELSE kids[1].item
    IN  IF item.inner = "ImplItem"
        THEN [d \in DOMAIN im \cup ImplDids(item) |->
                IF d \in ImplDids(item)
                THEN (IF d \in DOMAIN im
                      THEN Append(im[d], [impl_item |-> stored, items |-> kids])
                      ELSE <<[impl_item |-> stored, items |-> kids]>>)
                ELSE im[d]]
        ELSE im

\* self.impls.entry(did).or_insert(vec![]).push(Impl { impl_item: item.clone() }),
\* where item is the impl as fold_item_recur returned it, with its folded members
ImplsAfter(item, kids, im) ==
    IF item.inner = "ImplItem"
    THEN [d \in DOMAIN im \cup ImplDids(item) |->
            IF d \in ImplDids(item)
            THEN (IF d \in DOMAIN im
                  THEN Append(im[d], [impl_item |-> item, items |-> kids])
                  ELSE <<[impl_item |-> item, items |-> kids]>>)
            ELSE im[d]]
    ELSE im

\* variant: an impl that is stored under no key stays in the tree
Ret_KeepUnkeyed(item, kids) ==
    IF item.inner = "ImplItem" /\ ImplDids(item) # {}
    THEN None
    ELSE Some([item |-> item, kids |-> kids])

\* the value of `ret`: the item with its folded children, None for an impl
Ret(item, kids) ==
    IF item.inner = "ImplItem" THEN None ELSE Some([item |-> item, kids |-> kids])

\* fold_item_recur of the caller keeps a child for which fold_item returned Some
KeepKid(fs, r) ==
    IF r.some
    THEN [fs EXCEPT ![Len(fs)].kids = Append(fs[Len(fs)].kids, r.v)]
    ELSE fs

\* variant: the type pushed for an impl stays on the parent stack
FoldItemExit_ImplNotPopped ==
    /\ pc = "crawl"
    /\ frames # <<>>
    /\ LET f == Last(frames)
       IN  /\ impls' = ImplsAfter(f.item, f.kids, impls)
           /\ stack' = IF f.pushed THEN Front(stack) ELSE stack
           /\ parent_stack' = IF f.parent_pushed /\ f.item.inner # "ImplItem"
                             THEN Front(parent_stack) ELSE parent_stack
           /\ stripped_mod' = f.orig_stripped_mod
           /\ parent_is_trait_impl' = f.orig_parent_is_trait_impl
           /\ frames' = IF Len(frames) = 1 THEN <<>>
                         ELSE KeepKid(Front(frames), Ret(f.item, f.kids))
           /\ krate' = IF Len(frames) = 1 THEN Ret(f.item, f.kids) ELSE krate
           \* run(): the crawl has returned, build_index starts
           /\ pc' = IF Len(frames) = 1 THEN "orphans" ELSE "crawl"
    /\ UNCHANGED <<visits, crate_kind, access_levels, paths, traits, implementors, search_index,
                   orphan_impl_items>>
    /\ UnchangedIndexLocals
    /\ UnchangedPageState

\* fold_item from the return of fold_item_recur to its own return
FoldItemExit ==
    /\ pc = "crawl"
    /\ frames # <<>>
    /\ LET f == Last(frames)
       IN  /\ impls' = ImplsAfter(f.item, f.kids, impls)
           /\ stack' = IF f.pushed THEN Front(stack) ELSE stack
           /\ parent_stack' = IF f.parent_pushed THEN Front(parent_stack) ELSE parent_stack
           /\ stripped_mod' = f.orig_stripped_mod
           /\ parent_is_trait_impl' = f.orig_parent_is_trait_impl
           /\ frames' = IF Len(frames) = 1 THEN <<>>
                         ELSE KeepKid(Front(frames), Ret(f.item, f.kids))
           /\ krate' = IF Len(frames) = 1 THEN Ret(f.item, f.kids) ELSE krate
           \* run(): the crawl has returned, build_index starts
           /\ pc' = IF Len(frames) = 1 THEN "orphans" ELSE "crawl"
    /\ UNCHANGED <<visits, crate_kind, access_levels, paths, traits, implementors, search_index,
                   orphan_impl_items>>
    /\ UnchangedIndexLocals
    /\ UnchangedPageState

----------------------------------------------------------------------------
(* build_index.                                                            *)

\* variant: the path keeps the name of the type
OrphanItem_FullPath(o, pa) ==
    [ty |-> type_(o.item), name |-> o.item.name.v,
     path |-> Join(pa[o.did].fqp, "::"),
     desc |-> plain_summary_line(doc_value(o.item)),
     parent |-> Some(o.did), parent_idx |-> None]

\* the IndexItem pushed for an orphan whose type "has since been learned"
OrphanItem(o, pa) ==
    [ty |-> type_(o.item), name |-> o.item.name.v,
     path |-> Join(Front(pa[o.did].fqp), "::"),
     desc |-> plain_summary_line(doc_value(o.item)),
     parent |-> Some(o.did), parent_idx |-> None]

\* if let Some(&(ref fqp, _)) = paths.get(&did)
OrphanResolves(o, pa) == o.did \in DOMAIN pa

\* variant: an orphan of an unknown type is indexed with an empty path
AttachOrphan_KeepUnknown ==
    /\ pc = "orphans"
    /\ cursor <= Len(orphan_impl_items)
    /\ LET o == orphan_impl_items[cursor]
       IN  search_index' = IF o.did \in DOMAIN paths
                           THEN Append(search_index,
                                    [ty |-> type_(o.item), name |-> o.item.name.v,
                                     path |-> Join(Front(paths[o.did].fqp), "::"),
                                     desc |-> plain_summary_line(doc_value(o.item)),
                                     parent |-> Some(o.did), parent_idx |-> None])
                           ELSE Append(search_index,
                                    [ty |-> type_(o.item), name |-> o.item.name.v,
                                     path |-> "",
                                     desc |-> plain_summary_line(doc_value(o.item)),
                                     parent |-> Some(o.did), parent_idx |-> None])
    /\ cursor' = cursor + 1
    /\ UNCHANGED <<visits, frames, crate_kind, krate, access_levels, stack, parent_stack, parent_is_trait_impl,
                   stripped_mod, paths, traits, implementors, impls, orphan_impl_items, pc,
                   nodeid_to_pathid, crate_paths, crate_items, lastpath, lastpathid>>
    /\ UnchangedPageState

\* one iteration of `for &(did, ref item) in orphan_impl_items`
AttachOrphan ==
    /\ pc = "orphans"
    /\ cursor <= Len(orphan_impl_items)
    /\ LET o == orphan_impl_items[cursor]
       IN  search_index' = IF OrphanResolves(o, paths)
                           THEN Append(search_index, OrphanItem(o, paths))
                           ELSE search_index
    /\ cursor' = cursor + 1
    /\ UNCHANGED <<visits, frames, crate_kind, krate, access_levels, stack, parent_stack, parent_is_trait_impl,
                   stripped_mod, paths, traits, implementors, impls, orphan_impl_items, pc,
                   nodeid_to_pathid, crate_paths, crate_items, lastpath, lastpathid>>
    /\ UnchangedPageState

\* variant: the compaction starts while orphans are left
OrphansDone_Early ==
    /\ pc = "orphans"
    /\ pc' = "compact"
    /\ cursor' = 1
    /\ lastpath' = ""
    /\ lastpathid' = 0
    /\ UNCHANGED <<visits, frames, crate_kind, krate, access_levels, stack, parent_stack, parent_is_trait_impl,
                   stripped_mod, paths, traits, implementors, impls, search_index,
                   orphan_impl_items, nodeid_to_pathid, crate_paths, crate_items>>
    /\ UnchangedPageState

\* the orphan loop is over: let mut lastpath = String::new(); let mut lastpathid = 0usize;
OrphansDone ==
    /\ pc = "orphans"
    /\ cursor > Len(orphan_impl_items)
    /\ pc' = "compact"
    /\ cursor' = 1
    /\ lastpath' = ""
    /\ lastpathid' = 0
    /\ UNCHANGED <<visits, frames, crate_kind, krate, access_levels, stack, parent_stack, parent_is_trait_impl,
                   stripped_mod, paths, traits, implementors, impls, search_index,
                   orphan_impl_items, nodeid_to_pathid, crate_paths, crate_items>>
    /\ UnchangedPageState

\* paths.get(&nodeid).unwrap() fails for a parent that has no path
UnwrapFails(item, ids, pa) ==
    item.parent.some /\ item.parent.v \notin DOMAIN ids /\ item.parent.v \notin DOMAIN pa

\* variant: the side table names the parent by the first component of its path
CratePath_First(did, pa) == [ty |-> pa[did].ty, name |-> pa[did].fqp[1]]

\* crate_paths.push(((short as usize), fqp.last().unwrap().clone()).to_json())
CratePath(did, pa) == [ty |-> pa[did].ty, name |-> Last(pa[did].fqp)]

\* variant: a parent seen for the first time is given no slot
ParentIdx_FirstUnnumbered(item, ids, next) ==
    IF item.parent.some /\ item.parent.v \in DOMAIN ids THEN Some(ids[item.parent.v])
    ELSE None

\* variant: the slot of a parent seen before is not looked up
ParentIdx_NoMemo(item, ids, next) ==
    IF ~item.parent.some THEN None ELSE Some(next)

\* item.parent.map(|nodeid| ..): the slot of the item's parent
ParentIdx(item, ids, next) ==
    IF ~item.parent.some THEN None
    ELSE IF item.parent.v \in DOMAIN ids THEN Some(ids[item.parent.v])
    ELSE Some(next)

\* a parent seen for the first time gets the next slot
NewParent(item, ids) == item.parent.some /\ item.parent.v \notin DOMAIN ids

\* variant: the item is serialized without its description
ToJson_NoDesc(item) ==
    [ty |-> item.ty, name |-> item.name, path |-> item.path, desc |-> "",
     parent_idx |-> item.parent_idx]

\* variant: no path is omitted
OmitPath_Never(path, last) == path

\* variant: the comparison is inverted
OmitPath_Inverted(path, last) == IF last = path THEN path ELSE ""

\* "Omit the parent path if it is same to that of the prior item"
OmitPath(path, last) == IF last = path THEN "" ELSE path

\* assert_eq!(self.parent.is_some(), self.parent_idx.is_some()) fails
AssertFails(item) == item.parent.some # item.parent_idx.some

\* IndexItem::to_json: [ty, name, path, desc, parent_idx, search_type]
ToJson(item) ==
    [ty |-> item.ty, name |-> item.name, path |-> item.path, desc |-> item.desc,
     parent_idx |-> item.parent_idx]

\* one iteration of `for item in search_index`
AssignParentIdx ==
    /\ pc = "compact"
    /\ cursor <= Len(search_index)
    /\ LET item == search_index[cursor]
           fresh == NewParent(item, nodeid_to_pathid)
           done == [item EXCEPT !.parent_idx = ParentIdx(item, nodeid_to_pathid, lastpathid),
                                !.path = OmitPath(item.path, lastpath)]
       IN  IF UnwrapFails(item, nodeid_to_pathid, paths)
           THEN /\ pc' = "panic"
                /\ UNCHANGED <<cursor, search_index, nodeid_to_pathid, crate_paths,
                               crate_items, lastpath, lastpathid>>
           ELSE /\ nodeid_to_pathid' = IF fresh
                                       THEN MapInsert(nodeid_to_pathid, item.parent.v, lastpathid)
                                       ELSE nodeid_to_pathid
                /\ lastpathid' = IF fresh THEN lastpathid + 1 ELSE lastpathid
                /\ crate_paths' = IF fresh
                                  THEN Append(crate_paths, CratePath(item.parent.v, paths))
                                  ELSE crate_paths
                /\ lastpath' = IF lastpath = item.path THEN lastpath ELSE item.path
                /\ search_index' = [search_index EXCEPT ![cursor] = done]
                /\ IF AssertFails(done)
                   THEN /\ pc' = "assert"
                        /\ UNCHANGED <<crate_items, cursor>>
                   ELSE /\ crate_items' = Append(crate_items, ToJson(done))
                        /\ cursor' = cursor + 1
                        /\ pc' = pc
    /\ UNCHANGED <<visits, frames, crate_kind, krate, access_levels, stack, parent_stack, parent_is_trait_impl,
                   stripped_mod, paths, traits, implementors, impls, orphan_impl_items>>
    /\ UnchangedPageState

\* variant: the paths that do not appear in the index are pruned
Serialize_PrunePaths ==
    /\ pc = "compact"
    /\ cursor > Len(search_index)
    /\ pc' = "done"
    /\ paths' = [did \in DOMAIN paths \cap DOMAIN nodeid_to_pathid |-> paths[did]]
    /\ UNCHANGED <<visits, frames, crate_kind, krate, access_levels, stack, parent_stack, parent_is_trait_impl,
                   stripped_mod, traits, implementors, impls, search_index,
                   orphan_impl_items, cursor, nodeid_to_pathid, crate_paths, crate_items,
                   lastpath, lastpathid>>
    /\ UnchangedPageState

\* the index is collected into a string and returned to run()
Serialize ==
    /\ pc = "compact"
    /\ cursor > Len(search_index)
    /\ pc' = "done"
    /\ UNCHANGED <<visits, frames, crate_kind, krate, access_levels, stack, parent_stack, parent_is_trait_impl,
                   stripped_mod, paths, traits, implementors, impls, search_index,
                   orphan_impl_items, cursor, nodeid_to_pathid, crate_paths, crate_items,
                   lastpath, lastpathid>>
    /\ UnchangedPageState

----------------------------------------------------------------------------
(* The signature of a function in the search index.                        *)

\* number of arguments of the explored functions
MaxArgs == 2

\* clean::Type, as get_index_type reads it.  params is the list of type
\* arguments of the last path segment, None if it is not angle-bracketed;
\* TyTuple stands for the types that get_index_type_name leaves to its last arm
TyResolvedPath(name, params) == [t |-> "ResolvedPath", name |-> name, params |-> params]
TyGeneric(s) == [t |-> "Generic", name |-> s]
TyPrimitive(p) == [t |-> "Primitive", name |-> p]
TyBorrowedRef(ty) == [t |-> "BorrowedRef", name |-> "", type_ |-> ty]
TyTuple == [t |-> "Tuple", name |-> ""]

\* the explored type arguments and argument types
ArgTypes ==
    {TyPrimitive("U8"), TyGeneric("T"), TyTuple, TyResolvedPath("S", None)}
SigTypes ==
    {TyPrimitive("U8"), TyGeneric("T"), TyTuple, TyResolvedPath("S", None),
     TyBorrowedRef(TyResolvedPath("S", None)), TyBorrowedRef(TyTuple),
     TyResolvedPath("Vec", Some(<<>>))}
    \cup {TyResolvedPath("Vec", Some(<<a>>)) : a \in ArgTypes}
    \cup {TyResolvedPath("Map", Some(<<TyPrimitive("U8"), b>>)) : b \in {TyTuple, TyGeneric("T")}}

\* the explored items: functions and methods with their clean::FnDecl, and a
\* struct, which has no signature
SigItems ==
    {[inner |-> k, inputs |-> i, output |-> o] :
        k \in {"FunctionItem", "MethodItem", "StructItem"},
        i \in UNION {[1..n -> SigTypes] : n \in 0..MaxArgs},
        o \in {None} \cup {Some(ty) : ty \in SigTypes}}

\* str::to_ascii_lowercase on the explored names
Lower(str) ==
    CASE str = "Vec" -> "vec"
      [] str = "Map" -> "map"
      [] str = "S" -> "s"
      [] str = "T" -> "t"
      [] str = "U8" -> "u8"
      [] OTHER -> str

RECURSIVE get_index_type_name(_, _)
get_index_type_name(clean_type, accept_generic) ==
    IF clean_type.t = "ResolvedPath" THEN Some(clean_type.name)
    ELSE IF clean_type.t = "Generic" /\ accept_generic THEN Some(clean_type.name)
    ELSE IF clean_type.t = "Primitive" THEN Some(clean_type.name)
    ELSE IF clean_type.t = "BorrowedRef"
    THEN get_index_type_name(clean_type.type_, accept_generic)
    ELSE None

\* clean::Type::generics()
TypeGenerics(clean_type) ==
    IF clean_type.t = "ResolvedPath" THEN clean_type.params ELSE None

\* types.iter().filter_map(|t| get_index_type_name(t, false)).map(to_ascii_lowercase)
RECURSIVE FilterMapNames(_)
FilterMapNames(types) ==
    IF types = <<>> THEN <<>>
    ELSE LET n == get_index_type_name(Head(types), FALSE)
         IN  (IF n.some THEN <<Lower(n.v)>> ELSE <<>>) \o FilterMapNames(Tail(types))

get_generics(clean_type) ==
    LET g == TypeGenerics(clean_type)
    IN  IF ~g.some THEN None
        ELSE IF FilterMapNames(g.v) = <<>> THEN None
        ELSE Some(FilterMapNames(g.v))

\* struct Type { name, generics }
get_index_type(clean_type) ==
    LET n == get_index_type_name(clean_type, TRUE)
    IN  [name |-> IF n.some THEN Some(Lower(n.v)) ELSE None,
         generics |-> get_generics(clean_type)]

get_index_search_type(item) ==
    IF item.inner \in {"FunctionItem", "MethodItem", "TyMethodItem"}
    THEN Some([inputs |-> [i \in DOMAIN item.inputs |-> get_index_type(item.inputs[i])],
               output |-> IF item.output.some
                          THEN Some(get_index_type(item.output.v))
                          ELSE None])
    ELSE None

\* Json::Null
JsonNull == [null |-> TRUE]

\* impl ToJson for Type
TypeToJson(ty) ==
    IF ty.name.some
    THEN (IF ty.generics.some
          THEN [null |-> FALSE, name |-> ty.name.v, generics |-> ty.generics.v]
          ELSE [null |-> FALSE, name |-> ty.name.v])
    ELSE JsonNull

\* variant: only the arguments are looked at
FunctionTypeToJson_InputsOnly(fty) ==
    IF \E i \in DOMAIN fty.inputs : ~fty.inputs[i].name.some
    THEN JsonNull
    ELSE [null |-> FALSE,
          inputs |-> [i \in DOMAIN fty.inputs |-> TypeToJson(fty.inputs[i])],
          output |-> IF fty.output.some THEN TypeToJson(fty.output.v) ELSE JsonNull]

\* impl ToJson for IndexItemFunctionType
FunctionTypeToJson(fty) ==
    IF \/ \E i \in DOMAIN fty.inputs : ~fty.inputs[i].name.some
       \/ fty.output.some /\ ~fty.output.v.name.some
    THEN JsonNull
    ELSE [null |-> FALSE,
          inputs |-> [i \in DOMAIN fty.inputs |-> TypeToJson(fty.inputs[i])],
          output |-> IF fty.output.some THEN TypeToJson(fty.output.v) ELSE JsonNull]

\* a value that has not been computed yet
NotYet == [unset |-> TRUE]
IsSet(x) == "unset" \notin DOMAIN x

\* search_type: get_index_search_type(&item)
GetIndexSearchType ==
    /\ ~IsSet(search_type)
    /\ search_type' = get_index_search_type(decl)
    /\ UNCHANGED <<cachevars, srcvars, textvars, idvars, keyvars, sharedvars, decl, sig_json>>

\* data.push(self.search_type.to_json())
SearchTypeToJson ==
    /\ IsSet(search_type)
    /\ ~IsSet(sig_json)
    /\ sig_json' = IF search_type.some THEN FunctionTypeToJson(search_type.v) ELSE JsonNull
    /\ UNCHANGED <<cachevars, srcvars, textvars, idvars, keyvars, sharedvars, decl, search_type>>

\* no signature is being encoded
NoSignature ==
    /\ decl = NotYet
    /\ search_type = NotYet
    /\ sig_json = NotYet

----------------------------------------------------------------------------
(* The ids of a page (USED_ID_MAP).                                        *)

\* calls of derive_id between two resets of the map
MaxCalls == 5

\* the explored candidates: free ids, one that looks like a derived id, and a
\* reserved one
Candidates == {"a", "a-1", "b", "main"}

\* fn init_ids(): the reserved ids, each used once
init_ids ==
    [id \in {"main", "search", "help", "TOC", "render-detail", "associated-types",
             "associated-const", "required-methods", "provided-methods", "implementors",
             "implementors-list", "methods", "deref-methods", "implementations"} |-> 1]

\* format!("{}", n) of a usize
RECURSIVE Decimal(_)
Decimal(n) ==
    LET digit == <<"0", "1", "2", "3", "4", "5", "6", "7", "8", "9">>
    IN  IF n < 10 THEN digit[n + 1] ELSE Decimal(n \div 10) \o digit[(n % 10) + 1]

\* the id that derive_id returns for candidate
DerivedId(map, candidate) ==
    IF candidate \notin DOMAIN map THEN candidate
    ELSE candidate \o "-" \o Decimal(map[candidate])

\* the map after derive_id(candidate): *a += 1, then map.insert(id.clone(), 1)
UsedAfter(map, candidate) ==
    LET counted == IF candidate \in DOMAIN map
                   THEN [map EXCEPT ![candidate] = @ + 1]
                   ELSE map
    IN  MapInsert(counted, DerivedId(map, candidate), 1)

\* pub fn derive_id(candidate: String) -> String
DeriveId ==
    /\ Len(derived) < MaxCalls
    /\ \E candidate \in Candidates :
        /\ derived' = Append(derived, DerivedId(used_ids, candidate))
        /\ asked' = Append(asked, candidate)
        /\ used_ids' = UsedAfter(used_ids, candidate)
    /\ UNCHANGED <<cachevars, srcvars, textvars, sigvars, keyvars, sharedvars, embedded, prior_calls>>

\* reset_ids that keeps the counts when embedded
ResetIds_KeepCounts ==
    /\ \E e \in BOOLEAN :
        /\ embedded' = e
        /\ used_ids' = IF e THEN used_ids ELSE EmptyMap
    /\ derived' = <<>>
    /\ asked' = <<>>
    /\ prior_calls' = Len(derived)
    /\ UNCHANGED <<cachevars, srcvars, textvars, sigvars, keyvars, sharedvars>>

\* pub fn reset_ids(embedded: bool)
ResetIds ==
    /\ \E e \in BOOLEAN :
        /\ embedded' = e
        /\ used_ids' = IF e THEN init_ids ELSE EmptyMap
    /\ derived' = <<>>
    /\ asked' = <<>>
    /\ prior_calls' = Len(derived)
    /\ UNCHANGED <<cachevars, srcvars, textvars, sigvars, keyvars, sharedvars>>

\* thread_local!(USED_ID_MAP = RefCell::new(init_ids()))
NewIds ==
    /\ used_ids = init_ids
    /\ embedded = TRUE
    /\ derived = <<>>
    /\ asked = <<>>
    /\ prior_calls = 0

----------------------------------------------------------------------------
(* The order of the items of a module page (name_key, item_module::cmp).   *)
(* A name is the sequence of its characters.  A u64 is the sequence of its *)
(* decimal digits without leading zeros, <<"0">> for zero.                 *)

\* longest run of zeros put in front of the digits of a name
MaxZeros == 2

Digits == {"0", "1", "2", "3", "4", "5", "6", "7", "8", "9"}

\* the byte of a character
Byte ==
    [c \in Digits \cup {"!", "F", "a"} |->
        CASE c = "!" -> 33
          [] c = "F" -> 70
          [] c = "a" -> 97
          [] OTHER -> 48 + (CHOOSE d \in 0..9 : Decimal(d) = c)]

\* u64::MAX = 18446744073709551615
U64MaxDigits ==
    <<"1", "8", "4", "4", "6", "7", "4", "4", "0", "7",
      "3", "7", "0", "9", "5", "5", "1", "6", "1", "5">>

\* the explored names: a prefix, a run of zeros, and further digits
NamePrefixes == {<<>>, <<"F">>, <<"F", "!">>, <<"F", "2", "a">>}
NameTails ==
    {<<>>, <<"1">>, <<"2">>, <<"2", "0">>, <<"1", "0", "0">>,
     U64MaxDigits,
     Front(U64MaxDigits) \o <<"6">>,
     [i \in 1..20 |-> "9"],
     <<"1">> \o [i \in 1..20 |-> "0"]}
Names ==
    {p \o [i \in 1..z |-> "0"] \o t : p \in NamePrefixes, z \in 0..MaxZeros, t \in NameTails}

Suffix(s, from) == SubSeq(s, from + 1, Len(s))

\* Ord of two byte strings
RECURSIVE StrCmp(_, _)
StrCmp(a, b) ==
    CASE a = <<>> /\ b = <<>> -> "Equal"
      [] a = <<>> /\ b # <<>> -> "Less"
      [] a # <<>> /\ b = <<>> -> "Greater"
      [] OTHER ->
            IF Byte[Head(a)] < Byte[Head(b)] THEN "Less"
            ELSE IF Byte[Head(a)] > Byte[Head(b)] THEN "Greater"
            ELSE StrCmp(Tail(a), Tail(b))

\* Ord of two u64
U64Cmp(m, n) ==
    IF Len(m) < Len(n) THEN "Less"
    ELSE IF Len(m) > Len(n) THEN "Greater"
    ELSE StrCmp(m, n)

\* Ord of two usize
UsizeCmp(m, n) == IF m < n THEN "Less" ELSE IF m > n THEN "Greater" ELSE "Equal"

\* bytes().position(|b| b != b'0') of a string, None as -1
FirstNonZero(s) ==
    IF \E i \in DOMAIN s : s[i] # "0"
    THEN (CHOOSE i \in DOMAIN s : s[i] # "0" /\ \A j \in 1..(i - 1) : s[j] = "0") - 1
    ELSE -1

\* str::parse::<u64>() of a string of digits
ParseU64(s) ==
    LET digits == IF FirstNonZero(s) = -1 THEN <<"0">> ELSE Suffix(s, FirstNonZero(s))
    IN  IF s = <<>> \/ U64Cmp(digits, U64MaxDigits) = "Greater"
        THEN [ok |-> FALSE]
        ELSE [ok |-> TRUE, v |-> digits]

\* name_key's after_zeroes when a run of only zeros counts as no zeros
AfterZeroes_None(name, split) ==
    LET extra == FirstNonZero(Suffix(name, split))
    IN  IF extra = -1 THEN split ELSE split + extra

\* name_key: let after_zeroes = ...
AfterZeroes(name, split) ==
    LET extra == FirstNonZero(Suffix(name, split))
    IN  IF extra = -1 THEN Len(name) ELSE split + extra

\* fn name_key(name: &str) -> (&str, u64, usize)
name_key(name) ==
    LET nondigits == {i \in DOMAIN name : name[i] \notin Digits}
        split == IF nondigits = {} THEN 0
                 ELSE CHOOSE i \in nondigits : \A j \in nondigits : j <= i
        num_zeroes == AfterZeroes(name, split) - split
        parsed == ParseU64(Suffix(name, split))
    IN  IF parsed.ok
        THEN <<SubSeq(name, 1, split), parsed.v, num_zeroes>>
        ELSE <<name, <<"0">>, num_zeroes>>

\* cmp of two keys when the number of zeros comes before the value
KeyCmp_ZeroesFirst(k1, k2) ==
    IF StrCmp(k1[1], k2[1]) # "Equal" THEN StrCmp(k1[1], k2[1])
    ELSE IF UsizeCmp(k1[3], k2[3]) # "Equal" THEN UsizeCmp(k1[3], k2[3])
    ELSE U64Cmp(k1[2], k2[2])

\* Ord of (&str, u64, usize): name_key(lhs).cmp(&name_key(rhs))
KeyCmp(k1, k2) ==
    IF StrCmp(k1[1], k2[1]) # "Equal" THEN StrCmp(k1[1], k2[1])
    ELSE IF U64Cmp(k1[2], k2[2]) # "Equal" THEN U64Cmp(k1[2], k2[2])
    ELSE UsizeCmp(k1[3], k2[3])

\* let lhs = ..; let rhs = ..; the two calls of name_key
NameKeys ==
    /\ keys = NotYet
    /\ keys' = [lhs |-> name_key(names[1]), rhs |-> name_key(names[2])]
    /\ UNCHANGED <<cachevars, srcvars, textvars, sigvars, idvars, sharedvars, names, ordering>>

\* name_key(lhs).cmp(&name_key(rhs))
CmpKeys ==
    /\ IsSet(keys)
    /\ ordering = "NotYet"
    /\ ordering' = KeyCmp(keys.lhs, keys.rhs)
    /\ UNCHANGED <<cachevars, srcvars, textvars, sigvars, idvars, sharedvars, names, keys>>

\* no module page is sorted
NoNames ==
    /\ names = <<>>
    /\ keys = NotYet
    /\ ordering = "NotYet"

----------------------------------------------------------------------------
(* The search index shared by the crates of an output directory            *)
(* (write_shared).  A line of search-index.js is the sequence of its       *)
(* pieces: searchIndex, [, ", the characters of the crate name, ", ], =,   *)
(* the index, ;.                                                           *)

\* rustdoc runs on the same output directory
MaxBuilders == 3

Builders == 1..MaxBuilders

\* the explored crate names, one a prefix of another
CrateNames == {<<"a">>, <<"a", "b">>, <<"b">>}

\* the explored indexes of a crate
Indexes == {"v1", "v2"}

\* no builder holds the lock
NoBuilder == 0

\* flock::Lock::panicking_new(.., wait, create, exclusive): the lock is given
\* when nobody holds it
LockGranted(holder) == holder = NoBuilder

\* format!("searchIndex[{}] = {};", as_json(&krate.name), ..)
IndexLine(name, index) ==
    <<"searchIndex", "[", "\"">> \o name \o <<"\"", "]", " = ", index, ";">>

\* writeln!(&mut w, "var searchIndex = {{}};")
FirstLine == <<"var searchIndex = {};">>

\* writeln!(&mut w, "initSearch(searchIndex);")
LastLine == <<"initSearch(searchIndex);">>

\* str::starts_with
StartsWith(line, prefix) ==
    Len(prefix) <= Len(line) /\ SubSeq(line, 1, Len(prefix)) = prefix

\* the byte at which a piece differs from the pieces it can meet in a
\* comparison of two lines
PieceByte(piece) ==
    CASE piece = "\"" -> 34
      [] piece = "v1" -> 49
      [] piece = "v2" -> 50
      [] piece = "a"  -> 97
      [] piece = "b"  -> 98
      [] OTHER -> 0

\* Ord of String on two lines, as less-or-equal
RECURSIVE LineLeq(_, _)
LineLeq(l1, l2) ==
    IF l1 = <<>> THEN TRUE
    ELSE IF l2 = <<>> THEN FALSE
    ELSE IF Head(l1) = Head(l2) THEN LineLeq(Tail(l1), Tail(l2))
    ELSE PieceByte(Head(l1)) < PieceByte(Head(l2))

\* Vec::sort
RECURSIVE InsertSorted(_, _)
InsertSorted(line, sorted) ==
    IF sorted = <<>> THEN <<line>>
    ELSE IF LineLeq(line, Head(sorted)) THEN <<line>> \o sorted
    ELSE <<Head(sorted)>> \o InsertSorted(line, Tail(sorted))

RECURSIVE SortLines(_)
SortLines(lines) ==
    IF lines = <<>> THEN <<>> ELSE InsertSorted(Head(lines), SortLines(Tail(lines)))

\* collect that skips the lines of every crate whose name starts with its name
RECURSIVE collect_ByNamePrefix(_, _, _)
collect_ByNamePrefix(lines, crate_name, key) ==
    IF lines = <<>> THEN <<>>
    ELSE LET line == Head(lines)
             rest == collect_ByNamePrefix(Tail(lines), crate_name, key)
         IN  IF ~StartsWith(line, <<key>>) THEN rest
             ELSE IF StartsWith(line, <<key, "[", "\"">> \o crate_name) THEN rest
             ELSE <<line>> \o rest

\* fn collect(path, crate_name, key): the lines of the file that start with key,
\* but not those of the crate; no line when the file does not exist
RECURSIVE collect(_, _, _)
collect(lines, crate_name, key) ==
    IF lines = <<>> THEN <<>>
    ELSE LET line == Head(lines)
             rest == collect(Tail(lines), crate_name, key)
         IN  IF ~StartsWith(line, <<key>>) THEN rest
             ELSE IF StartsWith(line, <<key, "[", "\"">> \o crate_name \o <<"\"", "]">>) THEN rest
             ELSE <<line>> \o rest

\* let _lock = flock::Lock::panicking_new(&cx.dst.join(".lock"), true, true, true)
AcquireLock(b) ==
    /\ builders[b].pc = "start"
    /\ LockGranted(lock)
    /\ lock' = b
    /\ builders' = [builders EXCEPT ![b].pc = "locked"]
    /\ UNCHANGED <<cachevars, srcvars, textvars, sigvars, idvars, keyvars, index_file, built>>

\* write_shared when the lock is dropped before the index is read
Collect_LockDropped(b) ==
    /\ builders[b].pc = "locked"
    /\ builders' = [builders EXCEPT ![b].pc = "collected",
                                    ![b].all_indexes =
                                        collect(index_file, builders[b].krate, "searchIndex")]
    /\ lock' = NoBuilder
    /\ UNCHANGED <<cachevars, srcvars, textvars, sigvars, idvars, keyvars, index_file, built>>

\* let mut all_indexes = collect(&dst, &krate.name, "searchIndex")
Collect(b) ==
    /\ builders[b].pc = "locked"
    /\ builders' = [builders EXCEPT ![b].pc = "collected",
                                    ![b].all_indexes =
                                        collect(index_file, builders[b].krate, "searchIndex")]
    /\ UNCHANGED <<cachevars, srcvars, textvars, sigvars, idvars, keyvars, index_file, lock, built>>

\* all_indexes.push(search_index); all_indexes.sort(); File::create and the
\* writeln! of every line
Rewrite(b) ==
    /\ builders[b].pc = "collected"
    /\ LET mine == IndexLine(builders[b].krate, builders[b].search_index)
           all_indexes == SortLines(Append(builders[b].all_indexes, mine))
       IN  /\ index_file' = <<FirstLine>> \o all_indexes \o <<LastLine>>
           /\ builders' = [builders EXCEPT ![b].pc = "written",
                                           ![b].all_indexes = all_indexes]
    /\ built' = Append(built, [krate |-> builders[b].krate,
                               search_index |-> builders[b].search_index])
    /\ UNCHANGED <<cachevars, srcvars, textvars, sigvars, idvars, keyvars, lock>>

\* Ok(()): _lock goes out of scope
ReleaseLock(b) ==
    /\ builders[b].pc = "written"
    /\ lock' = IF lock = b THEN NoBuilder ELSE lock
    /\ builders' = [builders EXCEPT ![b].pc = "done"]
    /\ UNCHANGED <<cachevars, srcvars, textvars, sigvars, idvars, keyvars, index_file, built>>

\* no rustdoc writes to an output directory
NoBuilders ==
    /\ index_file = <<>>
    /\ lock = NoBuilder
    /\ builders = <<>>
    /\ built = <<>>

----------------------------------------------------------------------------
(* The two renderings of a text (render_text).                             *)

\* calls of derive_id before render_text and by each of its two renderings
MaxRenderCalls == 2

\* the map after the calls derive_id(seq[1]), derive_id(seq[2]), ...
RECURSIVE UsedAfterAll(_, _)
UsedAfterAll(map, seq) ==
    IF seq = <<>> THEN map ELSE UsedAfterAll(UsedAfter(map, Head(seq)), Tail(seq))

\* the rendering that runs, 0 before render_text
Rendering == CASE text.pc = "hoedown" -> 1 [] text.pc = "pulldown" -> 2 [] OTHER -> 0

\* let orig_used_id_map = USED_ID_MAP.with(|map| map.borrow().clone());
\* render(RenderType::Hoedown) is entered
RenderTextEnter ==
    /\ text.pc = "before"
    /\ text' = [text EXCEPT !.pc = "hoedown", !.orig_used_id_map = used_ids,
                            !.met = <<used_ids>>]
    /\ UNCHANGED <<cachevars, srcvars, sigvars, idvars, keyvars, sharedvars>>

\* derive_id(candidate), called before render_text or by the rendering that runs
RenderDerive ==
    /\ text.pc \in {"before", "hoedown", "pulldown"}
    /\ Len(text.candidates[Rendering + 1]) < MaxRenderCalls
    /\ \E candidate \in Candidates :
        /\ used_ids' = UsedAfter(used_ids, candidate)
        /\ text' = [text EXCEPT !.candidates[Rendering + 1] = Append(@, candidate)]
    /\ UNCHANGED <<cachevars, srcvars, sigvars, keyvars, sharedvars, embedded, derived, asked,
                   prior_calls>>

\* render_text that leaves the map of the first rendering in place
HoedownReturns_NoRestore ==
    /\ text.pc = "hoedown"
    /\ text' = [text EXCEPT !.pc = "pulldown", !.met = Append(@, used_ids)]
    /\ UNCHANGED <<cachevars, srcvars, sigvars, idvars, keyvars, sharedvars>>

\* USED_ID_MAP.with(|map| *map.borrow_mut() = orig_used_id_map);
\* render(RenderType::Pulldown) is entered
HoedownReturns ==
    /\ text.pc = "hoedown"
    /\ used_ids' = text.orig_used_id_map
    /\ text' = [text EXCEPT !.pc = "pulldown", !.met = Append(@, text.orig_used_id_map)]
    /\ UNCHANGED <<cachevars, srcvars, sigvars, keyvars, sharedvars, embedded, derived, asked,
                   prior_calls>>

\* (hoedown_output, pulldown_output) is returned
PulldownReturns ==
    /\ text.pc = "pulldown"
    /\ text' = [text EXCEPT !.pc = "returned"]
    /\ UNCHANGED <<cachevars, srcvars, sigvars, idvars, keyvars, sharedvars>>

\* render_text is not called
NoRender ==
    text = [pc |-> "idle", orig_used_id_map |-> EmptyMap, met |-> <<>>,
            candidates |-> <<(<<>>), (<<>>), (<<>>)>>]

----------------------------------------------------------------------------
(* The emission of the source files (SourceCollector).                     *)

\* items that SourceCollector::fold_item is handed
MaxFolded == 4

\* item.source.filename: two files and the pseudo-file of a macro expansion
SourceFiles == {"lib.rs", "m.rs"}
FileNames == SourceFiles \cup {"<macros>"}
\* FileName::is_real
is_real(filename) == filename \in SourceFiles

\* what emit_source can meet in the file system: all goes well; File::open or
\* read_to_end fails; File::create fails; layout::render or flush fails after
\* the file was created; from_utf8 or create_dir_all panics in unwrap
EmitOutcomes == {"Ok", "OpenErr", "CreateErr", "RenderErr", "Panic"}

\* fn emit_source(&mut self, filename): the result for a file that local_sources
\* holds or not, when the file system behaves as outcome says
emit_source(filename, local_sources, outcome) ==
    IF ~is_real(filename) THEN "Ok"
    ELSE IF filename \in local_sources THEN "Ok"
    ELSE outcome

\* SourceCollector::fold_item that does not remember the files it emitted
SourceFoldItem_ForgetsEmitted ==
    /\ sources.pc = "fold"
    /\ Len(sources.folded) < MaxFolded
    /\ \E filename \in FileNames, local \in BOOLEAN, outcome \in EmitOutcomes :
        LET item == [filename |-> filename, is_local |-> local]
            result == emit_source(filename, {}, outcome)
        IN  IF sources.include_sources /\ is_real(filename) /\ local
            THEN sources' =
                    [sources EXCEPT
                        !.folded = Append(@, item),
                        !.calls = Append(@, [filename |-> filename, outcome |-> result]),
                        !.include_sources = (result = "Ok"),
                        !.pc = IF result = "Panic" THEN "panic" ELSE "fold"]
            ELSE /\ outcome = "Ok"
                 /\ sources' = [sources EXCEPT !.folded = Append(@, item)]
    /\ UNCHANGED <<cachevars, sigvars, idvars, keyvars, sharedvars, textvars>>

\* impl DocFolder for SourceCollector: fn fold_item, up to fold_item_recur
SourceFoldItem ==
    /\ sources.pc = "fold"
    /\ Len(sources.folded) < MaxFolded
    /\ \E filename \in FileNames, local \in BOOLEAN, outcome \in EmitOutcomes :
        LET item == [filename |-> filename, is_local |-> local]
            seen == filename \in sources.local_sources
            result == emit_source(filename, sources.local_sources, outcome)
        IN  IF sources.include_sources /\ is_real(filename) /\ local
            THEN \* the file system is consulted for a file not seen before only
                 /\ seen => outcome = "Ok"
                 /\ sources' =
                    [sources EXCEPT
                        !.folded = Append(@, item),
                        !.calls = IF seen THEN @
                                  ELSE Append(@, [filename |-> filename, outcome |-> result]),
                        !.local_sources = IF result = "Ok" THEN @ \cup {filename} ELSE @,
                        !.include_sources = (result = "Ok"),
                        !.pc = IF result = "Panic" THEN "panic" ELSE "fold"]
            ELSE /\ outcome = "Ok"
                 /\ sources' = [sources EXCEPT !.folded = Append(@, item)]
    /\ UNCHANGED <<cachevars, sigvars, idvars, keyvars, sharedvars, textvars>>

\* no source file is collected
NoSources ==
    sources = [pc |-> "idle", include_sources |-> TRUE, local_sources |-> {},
               folded |-> <<>>, calls |-> <<>>]

----------------------------------------------------------------------------
(* run(): the Cache as constructed, with the crate name on the stack.      *)

\* Cache { .. } and the locals of build_index before the crawl
NewCache ==
    /\ visits = <<>>
    /\ frames = <<>>
    /\ krate = None
    /\ stack = <<KrateName>>
    /\ parent_stack = <<>>
    /\ parent_is_trait_impl = FALSE
    /\ stripped_mod = FALSE
    /\ paths = EmptyMap
    /\ traits = {}
    /\ implementors = EmptyMap
    /\ impls = EmptyMap
    /\ search_index = <<>>
    /\ orphan_impl_items = <<>>
    /\ pc = "crawl"
    /\ cursor = 1
    /\ nodeid_to_pathid = EmptyMap
    /\ crate_paths = <<>>
    /\ crate_items = <<>>
    /\ lastpath = ""
    /\ lastpathid = 0

\* a crate whose types show at several places, through re-exports
Init ==
    /\ crate_kind = "reexports"
    /\ access_levels \in SUBSET {"S"}
    /\ NewCache
    /\ NoSignature
    /\ NewIds
    /\ NoSources
    /\ NoRender
    /\ NoNames
    /\ NoBuilders

\* a crate with impl blocks of every shape, built against a masked crate
InitImpls ==
    /\ crate_kind = "impls"
    /\ access_levels = {"S"}
    /\ NewCache
    /\ NoSignature
    /\ NewIds
    /\ NoSources
    /\ NoRender
    /\ NoNames
    /\ NoBuilders

\* a crate of types and traits with bodies
InitBodies ==
    /\ crate_kind = "bodies"
    /\ access_levels \in SUBSET {"S"}
    /\ NewCache
    /\ NoSignature
    /\ NewIds
    /\ NoSources
    /\ NoRender
    /\ NoNames
    /\ NoBuilders

\* no crate is crawled: one item's signature is encoded
InitSig ==
    /\ crate_kind = "none"
    /\ access_levels = {}
    /\ NewCache
    /\ NewIds
    /\ NoSources
    /\ NoRender
    /\ NoNames
    /\ NoBuilders
    /\ decl \in SigItems
    /\ search_type = NotYet
    /\ sig_json = NotYet

\* no crate is crawled: ids are derived for the pages of a thread
InitIds ==
    /\ crate_kind = "none"
    /\ access_levels = {}
    /\ NewCache
    /\ NoSignature
    /\ NewIds
    /\ NoSources
    /\ NoRender
    /\ NoNames
    /\ NoBuilders

Next ==
    \/ FoldCrate
    \/ FoldItemEnter
    \/ FoldItemExit
    \/ AttachOrphan
    \/ OrphansDone
    \/ AssignParentIdx
    \/ Serialize

Spec == Init /\ [][Next]_vars

SpecImpls == InitImpls /\ [][Next]_vars

SpecBodies == InitBodies /\ [][Next]_vars

NextSig ==
    \/ GetIndexSearchType
    \/ SearchTypeToJson

SpecSig == InitSig /\ [][NextSig]_vars

\* no crate is crawled: two items of a module page are compared
InitNames ==
    /\ crate_kind = "none"
    /\ access_levels = {}
    /\ NewCache
    /\ NoSignature
    /\ NewIds
    /\ NoSources
    /\ NoRender
    /\ NoBuilders
    /\ names \in Names \X Names
    /\ keys = NotYet
    /\ ordering = "NotYet"

NextNames ==
    \/ NameKeys
    \/ CmpKeys

SpecNames == InitNames /\ [][NextNames]_vars

\* no crate is crawled: rustdoc runs once per builder on an empty output
\* directory, each with the name and the index of its crate
InitShared ==
    /\ crate_kind = "none"
    /\ access_levels = {}
    /\ NewCache
    /\ NoSignature
    /\ NewIds
    /\ NoSources
    /\ NoRender
    /\ NoNames
    /\ index_file = <<>>
    /\ lock = NoBuilder
    /\ builders \in [Builders -> [pc : {"start"}, krate : CrateNames,
                                  search_index : Indexes, all_indexes : {<<>>}]]
    /\ built = <<>>

NextShared ==
    \E b \in Builders :
        \/ AcquireLock(b)
        \/ Collect(b)
        \/ Rewrite(b)
        \/ ReleaseLock(b)

SpecShared == InitShared /\ [][NextShared]_vars

\* no crate is crawled: render_sources folds the crate with a SourceCollector;
\* include_sources is true unless the crate has #![doc(html_no_source)]
InitSources ==
    /\ crate_kind = "none"
    /\ access_levels = {}
    /\ NewCache
    /\ NoSignature
    /\ NewIds
    /\ NoRender
    /\ NoNames
    /\ NoBuilders
    /\ \E html_no_source \in BOOLEAN :
        sources = [pc |-> "fold", include_sources |-> ~html_no_source, local_sources |-> {},
                   folded |-> <<>>, calls |-> <<>>]

NextSources == SourceFoldItem

SpecSources == InitSources /\ [][NextSources]_vars

\* no crate is crawled: a page derives some ids and then renders a text
InitRender ==
    /\ crate_kind = "none"
    /\ access_levels = {}
    /\ NewCache
    /\ NoSignature
    /\ NewIds
    /\ NoSources
    /\ NoNames
    /\ NoBuilders
    /\ text = [pc |-> "before", orig_used_id_map |-> EmptyMap, met |-> <<>>,
               candidates |-> <<(<<>>), (<<>>), (<<>>)>>]

NextRender ==
    \/ RenderDerive
    \/ RenderTextEnter
    \/ HoedownReturns
    \/ PulldownReturns

SpecRender == InitRender /\ [][NextRender]_vars

NextIds ==
    \/ DeriveId
    \/ ResetIds

SpecIds == InitIds /\ [][NextIds]_vars

----------------------------------------------------------------------------
(* The Declaration Table (Cache.paths) and re-exports.                     *)

IsSighting(v, did) == v.item.def_id = did /\ v.item.inner \in PathKinds

\* the visits of declaration did, in order
Sightings(did) ==
    LET Test(v) == IsSighting(v, did) IN SelectSeq(visits, Test)

\* those of them that are not below a stripped module
OpenSightings(did) ==
    LET Test(v) == IsSighting(v, did) /\ ~v.stripped_mod IN SelectSeq(visits, Test)

HiddenSightings(did) ==
    LET Test(v) == IsSighting(v, did) /\ v.stripped_mod IN SelectSeq(visits, Test)

\* the table entry that a sighting writes
EntryOf(v) == [fqp |-> v.stack, ty |-> type_(v.item)]

CrawlOver == pc # "crawl"

\* C1, as claimed: the first sighting of an identifier creates its entry, and
\* among equally public sightings (all sightings of one identifier outside
\* stripped modules are) the first-written path and kind stay.
C1_FirstWriteWins ==
    \A did \in TypeIds :
        OpenSightings(did) # <<>> =>
            /\ did \in DOMAIN paths
            /\ paths[did] = EntryOf(OpenSightings(did)[1])

\* C1, amended: the first sighting outside stripped modules creates the entry;
\* a later such sighting replaces the recorded (path, kind) exactly when the
\* identifier is public (the last written stays), and is ignored when the
\* identifier is not public (the first written stays); without such a sighting
\* the identifier has no entry.
C1_InsertionPolicy ==
    \A did \in TypeIds :
        LET open == OpenSightings(did)
        IN  IF open = <<>> THEN did \notin DOMAIN paths
            ELSE /\ did \in DOMAIN paths
                 /\ paths[did] = IF did \in access_levels
                                 THEN EntryOf(open[Len(open)])
                                 ELSE EntryOf(open[1])

\* a public identifier was met at two places and its second path has replaced the first
C1_Witness ==
    \E did \in TypeIds :
        /\ did \in access_levels
        /\ Len(OpenSightings(did)) = 2
        /\ OpenSightings(did)[1].stack # OpenSightings(did)[2].stack
        /\ paths[did].fqp = OpenSightings(did)[2].stack

\* the declaration of a path-bearing kind that a step hands to fold_item
PathBearing(item) ==
    \/ item.inner \in PathKinds
    \/ item.inner = "StrippedItem" /\ item.boxed \in PathKinds

\* C2, as claimed: a visited declaration of a path-bearing kind is written with
\* the current path stack exactly when its identifier has no entry yet or is
\* public; otherwise the table is left unchanged.
C2_WrittenIffAbsentOrPublic ==
    [][visits' # visits /\ Last(visits').item.inner \in PathKinds =>
        LET item == Last(visits').item
        IN  IF item.def_id \notin DOMAIN paths \/ item.def_id \in access_levels
            THEN paths' = MapInsert(paths, item.def_id,
                                    [fqp |-> stack', ty |-> type_(item)])
            ELSE paths' = paths]_vars

\* C2, amended: the declaration is written with the current path stack exactly
\* when the stripped flag is not set at the visit (it is neither a stripped
\* module nor below one) and its identifier has no entry yet or is public;
\* otherwise the table is left unchanged.
C2_WrittenIffOpenAndAbsentOrPublic ==
    [][visits' # visits /\ PathBearing(Last(visits').item) =>
        LET item == Last(visits').item
        IN  IF /\ ~stripped_mod'
               /\ (item.def_id \notin DOMAIN paths \/ item.def_id \in access_levels)
            THEN paths' = MapInsert(paths, item.def_id,
                                    [fqp |-> stack', ty |-> type_(item)])
            ELSE paths' = paths]_vars

\* a non-public identifier has kept its first path at a second sighting, and
\* another declaration below a stripped module has not been written
C2_Witness ==
    /\ \E did \in TypeIds :
        /\ did \notin access_levels
        /\ Len(OpenSightings(did)) = 2
        /\ OpenSightings(did)[1].stack # OpenSightings(did)[2].stack
        /\ paths[did].fqp = OpenSightings(did)[1].stack
    /\ \E did \in TypeIds : HiddenSightings(did) # <<>> /\ did \notin DOMAIN paths

\* C3: an identifier visited first through a private re-export (below a
\* stripped module) and later through one public re-export has, after the
\* crawl, the path of the public re-export.
C3_PublicReexportWins ==
    CrawlOver =>
        \A did \in TypeIds :
            (/\ Sightings(did) # <<>>
             /\ Sightings(did)[1].stripped_mod
             /\ Len(OpenSightings(did)) = 1)
            => /\ did \in DOMAIN paths
               /\ paths[did].fqp = OpenSightings(did)[1].stack

C3_Witness ==
    /\ CrawlOver
    /\ \E did \in TypeIds :
        /\ Len(Sightings(did)) = 2
        /\ Sightings(did)[1].stripped_mod
        /\ ~Sightings(did)[2].stripped_mod
        /\ paths[did].fqp = Sightings(did)[2].stack

\* C4: a public identifier with exactly one public alias (a sighting outside
\* stripped modules) and any number of non-public aliases (sightings below
\* stripped modules) has, after the crawl, exactly one path, the one of the
\* public alias, whatever the order of the visits.
C4_OnePathAnyOrder ==
    CrawlOver =>
        \A did \in TypeIds \cap access_levels :
            Len(OpenSightings(did)) = 1 =>
                /\ did \in DOMAIN paths
                /\ paths[did] = EntryOf(OpenSightings(did)[1])

\* the public alias was visited before a non-public one
C4_Witness ==
    /\ CrawlOver
    /\ \E did \in TypeIds \cap access_levels :
        /\ Len(OpenSightings(did)) = 1
        /\ Len(Sightings(did)) = 2
        /\ Sightings(did)[2].stripped_mod
        /\ paths[did].fqp = Sightings(did)[1].stack

----------------------------------------------------------------------------
(* Members of implementation blocks: index entries and orphans.            *)

MemberKinds == {"MethodItem", "AssociatedConstItem"}

\* the visits of members of impl blocks whose subject type is resolvable
MemberVisits ==
    {i \in DOMAIN visits : visits[i].item.inner \in MemberKinds /\ visits[i].parent.some}

\* the index entries of the member called name (member names are unique)
MemberEntries(name) ==
    {k \in DOMAIN search_index :
        search_index[k].name = name /\ search_index[k].ty \in {"Method", "AssociatedConst"}}

IsOrphan(name) ==
    \E k \in DOMAIN orphan_impl_items : orphan_impl_items[k].item.name.v = name

\* the member is left out of the index for good
Dropped(v) ==
    \/ v.parent.v \notin DOMAIN paths
    \/ v.item.inner = "AssociatedConstItem" /\ v.trait_impl

\* C5, as claimed: each member of an impl block with a resolvable target has at
\* most one Index Entry, and in no reachable state is a member both held as an
\* Orphan Entry and present as an Index Entry.
C5_NeverOrphanAndIndexed ==
    \A i \in MemberVisits :
        LET name == visits[i].item.name.v
        IN  /\ Cardinality(MemberEntries(name)) <= 1
            /\ ~(IsOrphan(name) /\ MemberEntries(name) # {})

\* C5, amended: each member of an impl block with a resolvable target has at
\* most one Index Entry at any time and ends with exactly one of the outcomes
\* Index Entry or dropped; while the crawl runs no member is both held as an
\* Orphan Entry and present as an Index Entry (the resolver keeps the Orphan
\* Entries it promotes).
C5_OneOutcome ==
    \A i \in MemberVisits :
        LET name == visits[i].item.name.v
        IN  /\ Cardinality(MemberEntries(name)) <= 1
            /\ pc = "crawl" => ~(IsOrphan(name) /\ MemberEntries(name) # {})
            /\ pc = "done" => ((MemberEntries(name) # {}) # Dropped(visits[i]))

\* after the pass one member was promoted from an orphan, another one was dropped
C5_Witness ==
    /\ pc = "done"
    /\ \E i \in MemberVisits :
        IsOrphan(visits[i].item.name.v) /\ MemberEntries(visits[i].item.name.v) # {}
    /\ \E i \in MemberVisits :
        IsOrphan(visits[i].item.name.v) /\ MemberEntries(visits[i].item.name.v) = {}

\* what a reader of the serialized items makes of entry k: a blank path stands
\* for the last path before it that is not blank
RECURSIVE CarriedPath(_, _)
CarriedPath(items, k) ==
    IF items[k].path # "" THEN items[k].path
    ELSE IF k = 1 THEN ""
    ELSE CarriedPath(items, k - 1)

\* module m defines struct S; module n, visited after m, has `impl S { fn f() }`
C6_Scenario ==
    /\ pc = "done"
    /\ OpenSightings("S") # <<>>
    /\ \A k \in DOMAIN OpenSightings("S") :
            OpenSightings("S")[k].stack = <<KrateName, "m", "S">>
    /\ \E i, j \in DOMAIN visits :
        /\ i < j
        /\ IsSighting(visits[i], "S") /\ ~visits[i].stripped_mod
        /\ visits[j].item.inner = "MethodItem"
        /\ visits[j].item.name = Some("f")
        /\ visits[j].stack = <<KrateName, "n", "f">>
        /\ visits[j].parent = Some("S")
        /\ ~visits[j].trait_impl

\* the entry of the index for method f, with the path a reader sees
C6_EntryOfF(path) ==
    \E k \in DOMAIN search_index :
        /\ search_index[k].ty = "Method"
        /\ search_index[k].name = "f"
        /\ CarriedPath(crate_items, k) = path
        /\ search_index[k].parent = Some("S")
        /\ "S" \in DOMAIN nodeid_to_pathid
        /\ search_index[k].parent_idx = Some(nodeid_to_pathid["S"])
        /\ crate_items[k].parent_idx = Some(nodeid_to_pathid["S"])

\* C6, as claimed: in the scenario the index holds method f with path "m::S"
\* and the slot of S as its parent, and no entry for f whose path is n.
C6_MethodPathIsType ==
    C6_Scenario =>
        /\ C6_EntryOfF("m::S")
        /\ \A k \in DOMAIN search_index :
            search_index[k].name = "f" => CarriedPath(crate_items, k) \notin {"n", "k::n"}

\* C6, amended: in the scenario the index holds method f with path "k::m" (the
\* recorded path k::m::S of S, k being the crate, minus its last component)
\* and the slot of S as its parent, and no entry for f whose path is n.
C6_MethodPathIsModuleOfType ==
    C6_Scenario =>
        /\ C6_EntryOfF("k::m")
        /\ crate_paths[nodeid_to_pathid["S"] + 1] = [ty |-> "Struct", name |-> "S"]
        /\ \A k \in DOMAIN search_index :
            search_index[k].name = "f" => CarriedPath(crate_items, k) \notin {"n", "k::n"}

C6_Witness ==
    /\ C6_Scenario
    /\ C6_EntryOfF("k::m")

\* the step visits a method or associated const inside an impl block with a subject
C7_VisitsMember ==
    /\ visits' # visits
    /\ Last(visits').item.inner \in MemberKinds
    /\ Last(frames).item.inner = "ImplItem"
    /\ Last(frames).parent_pushed

\* the outcome that C7 claims for the member that the step visits
C7_Outcome ==
    LET item == Last(visits').item
        did == Last(parent_stack)
        entry(path) == [ty |-> type_(item), name |-> item.name.v, path |-> Join(path, "::"),
                        desc |-> plain_summary_line(doc_value(item)),
                        parent |-> Some(did), parent_idx |-> None]
    IN  IF did \in DOMAIN paths
        THEN /\ orphan_impl_items' = orphan_impl_items
             /\ search_index' =
                    Append(search_index,
                           IF paths[did].ty \in {"Trait", "Struct", "Union", "Enum"}
                           THEN entry(Front(paths[did].fqp))
                           ELSE entry(stack))
        ELSE /\ search_index' = search_index
             /\ orphan_impl_items' = Append(orphan_impl_items, [did |-> did, item |-> item])

\* C7, as claimed: a method or associated const of an impl block with subject X
\* is indexed under X's recorded path minus its last component when X is
\* recorded with kind trait, struct, union or enum, under the lexical stack when
\* X is recorded with another kind, and becomes an Orphan Entry (X, declaration)
\* and no Index Entry when X has no entry.
C7_MemberAttribution ==
    [][C7_VisitsMember => C7_Outcome]_vars

\* C7, amended: the same, except that an associated const of a trait
\* implementation produces neither an Index Entry nor an Orphan Entry.
C7_MemberAttributionButTraitConsts ==
    [][C7_VisitsMember =>
        IF Last(visits').item.inner = "AssociatedConstItem" /\ parent_is_trait_impl
        THEN search_index' = search_index /\ orphan_impl_items' = orphan_impl_items
        ELSE C7_Outcome]_vars

\* method f of an impl of the alias A is indexed under the lexical path "k",
\* not under the module k::m that defines A
C7_Witness ==
    /\ "A" \in DOMAIN paths
    /\ paths["A"].fqp = <<KrateName, "m", "A">>
    /\ \E k \in DOMAIN search_index :
        /\ search_index[k].parent = Some("A")
        /\ search_index[k].path = KrateName

----------------------------------------------------------------------------
(* Orphan resolution and parent slots.                                     *)

\* the orphan loop is over and the slot loop has not started
OrphansAttached == pc = "compact" /\ cursor = 1

ResolvableOrphans ==
    LET Test(o) == o.did \in DOMAIN paths IN SelectSeq(orphan_impl_items, Test)

UnresolvableOrphans ==
    LET Test(o) == o.did \notin DOMAIN paths IN SelectSeq(orphan_impl_items, Test)

\* C8: for each Orphan Entry whose owning type is in the final Declaration
\* Table exactly one Index Entry is appended, with the orphan's kind and name,
\* the owning identifier as parent and the owning type's recorded path minus
\* its last component as path.
C8_OrphansPromoted ==
    OrphansAttached =>
        LET res == ResolvableOrphans
            n == Len(search_index)
        IN  /\ Len(res) <= n
            /\ \A k \in DOMAIN res :
                LET o == res[k]
                    e == search_index[n - Len(res) + k]
                IN  /\ e.ty = ItemType(o.item.inner)
                    /\ e.name = o.item.name.v
                    /\ e.parent = Some(o.did)
                    /\ e.path = Join(SubSeq(paths[o.did].fqp, 1, Len(paths[o.did].fqp) - 1), "::")
                    /\ Cardinality({j \in DOMAIN search_index :
                            search_index[j].name = e.name /\ search_index[j].parent = e.parent}) = 1

\* method f was visited before its type S, which module m defines: the entry
\* appended for it has the path of m, not the path of the impl block
C8_Witness ==
    /\ OrphansAttached
    /\ Len(ResolvableOrphans) = 1
    /\ "S" \in DOMAIN paths
    /\ paths["S"].fqp = <<KrateName, "m", "S">>
    /\ Last(search_index).name = "f"
    /\ Last(search_index).path = "k::m"
    /\ \E i \in DOMAIN visits : visits[i].item.name = Some("f") /\ visits[i].stack = <<KrateName, "f">>

\* C9: an Orphan Entry whose owning type is absent from the final Declaration
\* Table yields no Index Entry and no error: its iteration of the orphan loop
\* changes nothing (the index is as if the orphan had not been recorded), the
\* index has no entry for it, and build_index does not fail.
C9_UnresolvedOrphanDropped ==
    /\ [](CrawlOver =>
            \A k \in DOMAIN UnresolvableOrphans :
                /\ pc # "panic"
                /\ \A j \in DOMAIN search_index :
                    /\ search_index[j].parent # Some(UnresolvableOrphans[k].did)
                    /\ search_index[j].name # UnresolvableOrphans[k].item.name.v)
    /\ [][(/\ pc = "orphans"
           /\ cursor <= Len(orphan_impl_items)
           /\ orphan_impl_items[cursor].did \notin DOMAIN paths)
          => /\ pc' = "orphans"
             /\ cursor' = cursor + 1
             /\ UNCHANGED <<search_index, orphan_impl_items, paths, nodeid_to_pathid,
                            crate_paths, crate_items>>]_vars

\* build_index has ended with an orphan unresolved and another one promoted
C9_Witness ==
    /\ pc = "done"
    /\ UnresolvableOrphans # <<>>
    /\ ResolvableOrphans # <<>>
    /\ Len(crate_items) = Len(search_index)

\* the parent identifiers that occur in the index
IndexParents ==
    {search_index[k].parent.v : k \in {j \in DOMAIN search_index : search_index[j].parent.some}}

\* C10: after compaction the paths table has as many slots as the index has
\* distinct parent identifiers, and two entries with the same parent
\* identifier carry the same slot.
C10_SlotPerParent ==
    pc = "done" =>
        /\ Len(crate_paths) = Cardinality(IndexParents)
        /\ \A i, j \in DOMAIN search_index :
            (search_index[i].parent.some /\ search_index[i].parent = search_index[j].parent)
            => /\ search_index[i].parent_idx.some
               /\ search_index[i].parent_idx = search_index[j].parent_idx
               /\ crate_items[i].parent_idx = crate_items[j].parent_idx

\* two entries have different parents, and the paths table has the two slots
C10_Witness ==
    /\ pc = "done"
    /\ Len(crate_paths) = 2
    /\ \E i, j \in DOMAIN search_index :
        /\ search_index[i].parent.some
        /\ search_index[j].parent.some
        /\ search_index[i].parent # search_index[j].parent
        /\ search_index[i].parent_idx = Some(0)
        /\ search_index[j].parent_idx = Some(1)

----------------------------------------------------------------------------
(* Parent slots and the side table (crate_paths).                          *)

\* position of the first index entry whose parent is d
FirstEntryOf(d) ==
    CHOOSE i \in DOMAIN search_index :
        /\ search_index[i].parent = Some(d)
        /\ \A j \in 1..(i - 1) : search_index[j].parent # Some(d)

\* number of distinct parents that appear in the index before d does
SlotOf(d) == Cardinality({e \in IndexParents : FirstEntryOf(e) < FirstEntryOf(d)})

\* C11: slots are 0, 1, 2, ... in the order in which the distinct parent
\* identifiers first appear in the index list (so distinct parents have distinct
\* slots), and position k of the side table is (kind, last path component) of
\* the Declaration Table entry of the parent with slot k.
C11_SlotsInOrderOfAppearance ==
    pc = "done" =>
        \A i \in DOMAIN search_index :
            search_index[i].parent.some =>
                LET d == search_index[i].parent.v
                IN  /\ search_index[i].parent_idx = Some(SlotOf(d))
                    /\ crate_items[i].parent_idx = Some(SlotOf(d))
                    /\ SlotOf(d) + 1 \in DOMAIN crate_paths
                    /\ crate_paths[SlotOf(d) + 1] =
                            [ty |-> paths[d].ty, name |-> Last(paths[d].fqp)]

\* the struct and the type alias are both parents; the alias comes second
C11_Witness ==
    /\ pc = "done"
    /\ crate_paths = <<[ty |-> "Struct", name |-> "S"], [ty |-> "Typedef", name |-> "A"]>>
    /\ \E i \in DOMAIN search_index : ~search_index[i].parent.some

----------------------------------------------------------------------------
(* Omission of repeated paths.                                             *)

\* C12: filling each blank path of the serialized items with the most recent
\* non-blank path before it gives back the path that the entry had in the index
\* before its path was blanked.
C12_PathsRoundTrip ==
    [][(pc = "compact" /\ cursor' = cursor + 1)
        => /\ CarriedPath(crate_items', cursor) = search_index[cursor].path
           /\ \A k \in 1..(cursor - 1) :
                CarriedPath(crate_items', k) = CarriedPath(crate_items, k)]_vars

\* a blank path follows a non-blank one and is followed by a different path
C12_Witness ==
    /\ pc = "done"
    /\ \E k \in DOMAIN crate_items :
        /\ k > 1
        /\ k < Len(crate_items)
        /\ crate_items[k].path = ""
        /\ crate_items[k + 1].path # ""
        /\ CarriedPath(crate_items, k) # ""

----------------------------------------------------------------------------
(* Below a stripped module.                                                *)

\* fold_item is entered for a declaration below a stripped module
VisitsBelowStripped ==
    /\ pc = "crawl"
    /\ Len(visits') = Len(visits) + 1
    /\ stripped_mod

\* the visited declaration is a member whose owner is on the parent stack
OwnedMember(v) ==
    /\ v.item.inner \in MemberKinds
    /\ v.parent.some
    /\ ~(v.item.inner = "AssociatedConstItem" /\ v.trait_impl)

----------------------------------------------------------------------------
(* The implementors of traits (Cache.implementors).                        *)

\* the impl blocks that were visited
ImplVisits == {visits[i].item : i \in {j \in DOMAIN visits : visits[j].item.inner = "ImplItem"}}

\* the records of impl block it: <<trait, position>>
ImplementorRecords(it) ==
    {r \in UNION {{<<t, k>> : k \in DOMAIN implementors[t]} : t \in DOMAIN implementors} :
        implementors[r[1]][r[2]].def_id = it.def_id}

\* the impl block or its target type belongs to a masked crate
MaskedImpl(it) ==
    \/ KrateOf(it.def_id) \in masked_crates
    \/ it.for_.t = "ResolvedPath" /\ KrateOf(it.for_.did) \in masked_crates

\* C13: of the impls of trait T, one that is local and for a type outside the
\* masked crates has a record among the implementors of T, and one that
\* belongs to a masked crate (the impl or its target type) has none.
C13_MaskedImplementorsExcluded ==
    \A it \in ImplVisits :
        it.trait_ = Some("T") =>
            /\ MaskedImpl(it) => ImplementorRecords(it) = {}
            /\ ~MaskedImpl(it) =>
                 \E k \in DOMAIN implementors["T"] : implementors["T"][k].def_id = it.def_id

\* T has a local impl for S and an impl from the masked crate; one record
C13_Witness ==
    /\ \E a, b \in ImplVisits :
        /\ a.trait_ = Some("T") /\ a.for_ = ResolvedPath("S") /\ ~MaskedImpl(a)
        /\ b.trait_ = Some("T") /\ KrateOf(b.def_id) = MaskedKrate
    /\ "T" \in DOMAIN implementors
    /\ Len(implementors["T"]) = 1

\* C14, as claimed: an impl has one record under its trait unless it is
\* inherent, its trait belongs to a masked crate or its target type does; then
\* it has none.
C14_OneRecordUnlessTraitOrTargetMasked ==
    \A it \in ImplVisits :
        IF /\ it.trait_.some
           /\ KrateOf(it.trait_.v) \notin masked_crates
           /\ ~(it.for_.t = "ResolvedPath" /\ KrateOf(it.for_.did) \in masked_crates)
        THEN /\ Cardinality(ImplementorRecords(it)) = 1
             /\ \A r \in ImplementorRecords(it) : r[1] = it.trait_.v
        ELSE ImplementorRecords(it) = {}

\* C14, amended: an impl has one record under its trait unless it is inherent,
\* the impl itself belongs to a masked crate or its target type does; then it
\* has none.  The crate of the trait makes no difference.
C14_OneRecordUnlessImplOrTargetMasked ==
    \A it \in ImplVisits :
        IF it.trait_.some /\ ~MaskedImpl(it)
        THEN /\ Cardinality(ImplementorRecords(it)) = 1
             /\ \A r \in ImplementorRecords(it) : r[1] = it.trait_.v
        ELSE ImplementorRecords(it) = {}

\* a local impl of the masked trait has its record; an inherent impl was visited
C14_Witness ==
    /\ \E it \in ImplVisits :
        /\ it.trait_ = Some("TX")
        /\ ImplementorRecords(it) # {}
    /\ \E it \in ImplVisits : ~it.trait_.some

----------------------------------------------------------------------------
(* The impl registry (Cache.impls) and the returned tree.                  *)

\* the items of a tree
RECURSIVE TreeItems(_)
TreeItems(tree) ==
    {tree.item} \cup UNION {TreeItems(tree.kids[k]) : k \in DOMAIN tree.kids}

\* the keys under which impl block it is stored
RegistryKeys(it) ==
    {d \in DOMAIN impls : \E j \in DOMAIN impls[d] : impls[d][j].impl_item = it}

\* the members of impl block it that were visited
VisitedMembers(it) ==
    {visits[i].item : i \in {j \in DOMAIN visits : visits[j].item \in MemberItems(it.def_id)}}

\* the trait of the impl belongs to a masked crate
MaskedTrait(it) == it.trait_.some /\ KrateOf(it.trait_.v) \in masked_crates

\* the target of the impl names a type: a nominal type, a reference to one, or
\* a primitive that has a documentation page
NamedTarget(it) ==
    \/ it.for_.t \in {"ResolvedPath", "BorrowedRef"}
    \/ it.for_.t = "Primitive" /\ it.for_.did \in DOMAIN primitive_locations

\* the visit of impl block it has ended
Folded(it) == \A k \in DOMAIN frames : frames[k].item # it

----------------------------------------------------------------------------
(* Declarations of a type's or a trait's body.                            *)

\* fold_item is entered for an associated type, a field or a variant
VisitsBodyItem ==
    /\ pc = "crawl"
    /\ Len(visits') = Len(visits) + 1
    /\ Last(visits').item.inner \in {"AssociatedTypeItem", "StructFieldItem", "VariantItem"}

\* fold_item is entered for an associated const of a trait's body
VisitsTraitConst ==
    /\ pc = "crawl"
    /\ Len(visits') = Len(visits) + 1
    /\ Last(visits').item.inner = "AssociatedConstItem"
    /\ Last(frames).item.inner = "TraitItem"

\* the index grows by the entry of the visited declaration, with this path
Indexed(path) ==
    /\ Len(search_index') = Len(search_index) + 1
    /\ \A k \in DOMAIN search_index : search_index'[k] = search_index[k]
    /\ Last(search_index').name = Last(visits').item.name.v
    /\ Last(search_index').parent = Some(Last(parent_stack))
    /\ Last(search_index').path = Join(path, "::")

\* C17, as claimed: an associated type, associated const, field or variant of
\* a type's or trait's body is indexed when it is visited, with the recorded
\* path of the enclosing type minus its last component, and is never set aside
\* as an orphan.
C17_BodyItemsIndexedUnderTypePath ==
    [][(VisitsBodyItem \/ VisitsTraitConst) =>
        /\ orphan_impl_items' = orphan_impl_items
        /\ Last(parent_stack) \in DOMAIN paths
        /\ Indexed(Front(paths[Last(parent_stack)].fqp))]_vars

\* C17, amended: an associated type, field or variant is never set aside as an
\* orphan; outside stripped modules it is indexed when it is visited, with the
\* path stack minus its last component as its path, which is the recorded path
\* of the enclosing type minus its last component if the sighting of the type
\* that is being visited wrote the entry; below a stripped module it is not
\* indexed.  An associated const of a trait's body is indexed with the recorded
\* path of the trait minus its last component if the trait has an entry, and
\* is set aside as an orphan if it has none.
C17_BodyItemsIndexedUnderStack ==
    /\ [][VisitsBodyItem =>
            /\ orphan_impl_items' = orphan_impl_items
            /\ IF stripped_mod THEN search_index' = search_index
               ELSE /\ Indexed(Front(stack))
                    /\ (/\ Last(parent_stack) \in DOMAIN paths
                        /\ paths[Last(parent_stack)].fqp = stack)
                       => Indexed(Front(paths[Last(parent_stack)].fqp))]_vars
    /\ [][VisitsTraitConst =>
            IF Last(parent_stack) \in DOMAIN paths
            THEN /\ Indexed(Front(paths[Last(parent_stack)].fqp))
                 /\ orphan_impl_items' = orphan_impl_items
            ELSE /\ search_index' = search_index
                 /\ orphan_impl_items' =
                        Append(orphan_impl_items,
                               [did |-> Last(parent_stack), item |-> Last(visits').item])]_vars

\* while the crawl runs: the field of a struct that shows at two places is
\* indexed with a path that is not the recorded path of the struct minus its
\* last component
C17_Witness ==
    /\ pc = "crawl"
    /\ "S" \in DOMAIN paths
    /\ \E k \in DOMAIN search_index :
            /\ search_index[k].name = "x"
            /\ search_index[k].ty = "StructField"
            /\ search_index[k].parent = Some("S")
            /\ search_index[k].path # Join(Front(paths["S"].fqp), "::")

----------------------------------------------------------------------------
(* Encoding of signatures.                                                 *)

\* the item has a signature and its serialization has been computed
SignatureEncoded ==
    /\ IsSet(sig_json)
    /\ decl.inner \in {"FunctionItem", "MethodItem"}

\* the types of the signature: the arguments and the return type
SigParts == {decl.inputs[i] : i \in DOMAIN decl.inputs}
            \cup (IF decl.output.some THEN {decl.output.v} ELSE {})

\* a type that has a name: everything but a tuple, through references
RECURSIVE HasName(_)
HasName(ty) ==
    IF ty.t = "BorrowedRef" THEN HasName(ty.type_) ELSE ty.t # "Tuple"

\* the type arguments of a type
TypeArgs(ty) == IF ty.t = "ResolvedPath" /\ ty.params.some THEN ty.params.v ELSE <<>>

\* a type, with its type arguments, can be named
FullyNamed(ty) ==
    HasName(ty) /\ \A k \in DOMAIN TypeArgs(ty) : HasName(TypeArgs(ty)[k])

\* the serialization of a type shows every type argument
ShowsAllArgs(ty, json) ==
    /\ ~json.null
    /\ TypeArgs(ty) # <<>> =>
        /\ "generics" \in DOMAIN json
        /\ Len(json.generics) = Len(TypeArgs(ty))

\* C19, as claimed: the signature is null if an argument type, the return
\* type or a type argument nested in one of them cannot be named; otherwise
\* every part, type arguments included, shows in the encoding.
C19_AllOrNothing ==
    SignatureEncoded =>
        IF \E ty \in SigParts : ~FullyNamed(ty)
        THEN sig_json.null
        ELSE /\ ~sig_json.null
             /\ Len(sig_json.inputs) = Len(decl.inputs)
             /\ \A i \in DOMAIN decl.inputs : ShowsAllArgs(decl.inputs[i], sig_json.inputs[i])
             /\ decl.output.some => ShowsAllArgs(decl.output.v, sig_json.output)

\* the type arguments that the encoding of a type lists: the named ones that
\* are not type parameters, in lower case
RECURSIVE ListedArgs(_)
ListedArgs(args) ==
    IF args = <<>> THEN <<>>
    ELSE (IF HasName(Head(args)) /\ Head(args).t # "Generic"
          THEN <<Lower(IF Head(args).t = "BorrowedRef"
                       THEN Head(args).type_.name
                       ELSE Head(args).name)>>
          ELSE <<>>) \o ListedArgs(Tail(args))

\* the serialization of a type that has a name: the name in lower case, and
\* the listed type arguments if there are any
EncodesType(ty, json) ==
    /\ ~json.null
    /\ json.name = Lower(IF ty.t = "BorrowedRef" THEN ty.type_.name ELSE ty.name)
    /\ IF ListedArgs(TypeArgs(ty)) = <<>>
       THEN "generics" \notin DOMAIN json
       ELSE /\ "generics" \in DOMAIN json
            /\ json.generics = ListedArgs(TypeArgs(ty))

\* C19, amended: the signature is null exactly if an argument type or the
\* return type cannot be named; otherwise every argument type and the return
\* type show in the encoding, in order, each with the type arguments that can
\* be named and are not type parameters; the other type arguments are left
\* out, and a function without a return type has the output null.
C19_AllOrNothingButTypeArguments ==
    SignatureEncoded =>
        IF \E ty \in SigParts : ~HasName(ty)
        THEN sig_json.null
        ELSE /\ ~sig_json.null
             /\ Len(sig_json.inputs) = Len(decl.inputs)
             /\ \A i \in DOMAIN decl.inputs : EncodesType(decl.inputs[i], sig_json.inputs[i])
             /\ IF decl.output.some
                THEN EncodesType(decl.output.v, sig_json.output)
                ELSE sig_json.output.null

\* a function that takes a Vec of tuples and returns a value is encoded, with
\* no type argument for the Vec
C19_Witness ==
    /\ SignatureEncoded
    /\ ~sig_json.null
    /\ decl.output.some
    /\ \E i \in DOMAIN decl.inputs :
        /\ decl.inputs[i] = TyResolvedPath("Vec", Some(<<TyTuple>>))
        /\ "generics" \notin DOMAIN sig_json.inputs[i]

----------------------------------------------------------------------------
(* C20. The ids that derive_id returns between two resets.                 *)

\* the ids returned since the last reset are pairwise distinct
DerivedDistinct ==
    \A i, j \in DOMAIN derived : i # j => derived[i] # derived[j]

\* no id returned since a reset with embedded = true is a reserved id
DerivedNotReserved ==
    embedded => \A i \in DOMAIN derived : derived[i] \notin DOMAIN init_ids

\* C20: for any sequence of derive_id calls with arbitrary candidates between
\* two resets of the used-id map, the returned ids are pairwise distinct, and
\* distinct from the reserved ids when the map was reset with embedded = true.
\* derive_id does not keep this: a candidate that already has the shape of a
\* derived id ("a-1") is returned as it is, and a later second use of "a"
\* returns "a-1" again.
C20_DerivedIdsUnique ==
    DerivedDistinct /\ DerivedNotReserved

----------------------------------------------------------------------------
(* C21. The numbering of derive_id.                                        *)

\* the number of calls before the i-th one that had the same candidate
EarlierCalls(i) ==
    Cardinality({j \in 1..(i - 1) : asked[j] = asked[i]})

\* the id that numbering by calls gives to the i-th call: a reserved id counts
\* as used once
NumberedId(i) ==
    LET k == EarlierCalls(i) + (IF asked[i] \in DOMAIN init_ids THEN 1 ELSE 0)
    IN  IF k = 0 THEN asked[i] ELSE asked[i] \o "-" \o Decimal(k)

\* the first call with a candidate that is not reserved returned it unchanged
FirstCallUnchanged ==
    \A i \in DOMAIN asked :
        (asked[i] \notin DOMAIN init_ids /\ EarlierCalls(i) = 0) => derived[i] = asked[i]

\* C21: starting from the initial or reset(true) map, the first call with a
\* candidate c that is not a reserved id returns c unchanged, the first call
\* with a reserved id returns c-1, and each further call with the same c
\* returns c-k where k increases by exactly one per call.
\* derive_id does not keep this: the id it returns is inserted with count 1,
\* so a candidate that was already returned as a derived id is numbered from
\* there, and a call that returns an id already in the map sets the count of
\* that id back to 1.
C21_NumberedByCalls ==
    embedded => \A i \in DOMAIN asked : derived[i] = NumberedId(i)

----------------------------------------------------------------------------
(* C22. What reset_ids leaves behind.                                      *)

\* the ids that the calls derive_id(seq[1]), derive_id(seq[2]), ... return when
\* the first of them finds the map as map
RECURSIVE Replay(_, _)
Replay(map, seq) ==
    IF seq = <<>> THEN <<>>
    ELSE <<DerivedId(map, Head(seq))>> \o Replay(UsedAfter(map, Head(seq)), Tail(seq))

\* C22: after reset_ids(true), any sequence of derive_id calls returns exactly
\* what the same sequence returns from the initial thread-local state,
\* whatever calls were made before the reset; after reset_ids(false) the map
\* is empty, and a reserved id is returned unchanged on its first use.
C22_ResetErasesHistory ==
    /\ embedded => derived = Replay(init_ids, asked)
    /\ ~embedded =>
        /\ derived = Replay(EmptyMap, asked)
        /\ \A i \in DOMAIN asked :
            (asked[i] \in DOMAIN init_ids /\ EarlierCalls(i) = 0) => derived[i] = asked[i]

\* calls were made, the map was reset with embedded = true, and a reserved id
\* and a repeated candidate were numbered again from the start
C22_Witness ==
    /\ prior_calls > 0
    /\ embedded
    /\ \E i, j \in DOMAIN asked :
        /\ asked[i] = "main" /\ derived[i] = "main-1"
        /\ i # j /\ asked[j] = "a" /\ derived[j] = "a"

----------------------------------------------------------------------------
(* C23. What name_key returns.                                             *)

\* the length of the maximal trailing run of ASCII digits of a name
TrailingRun(name) ==
    CHOOSE r \in 0..Len(name) :
        /\ \A i \in (Len(name) - r + 1)..Len(name) : name[i] \in Digits
        /\ r = Len(name) \/ name[Len(name) - r] \notin Digits

\* the number of zeros at the start of a run of digits
LeadingZeros(run) ==
    CHOOSE z \in 0..Len(run) :
        /\ \A i \in 1..z : run[i] = "0"
        /\ z = Len(run) \/ run[z + 1] # "0"

\* the numeric value of a non-empty run of digits
RunValue(run) ==
    IF LeadingZeros(run) = Len(run) THEN <<"0">> ELSE Suffix(run, LeadingZeros(run))

\* the value of the run fits in 64 bits
FitsU64(run) == U64Cmp(RunValue(run), U64MaxDigits) # "Greater"

\* the key that the split at the trailing digits gives to a name
SplitKey(name) ==
    LET r == TrailingRun(name)
        prefix == SubSeq(name, 1, Len(name) - r)
        run == Suffix(name, Len(name) - r)
    IN  IF r = 0 THEN <<name, <<"0">>, 0>>
        ELSE IF FitsU64(run) THEN <<prefix, RunValue(run), LeadingZeros(run)>>
        ELSE <<name, <<"0">>, LeadingZeros(run)>>

\* C23: name_key splits a name at its maximal trailing run of ASCII digits and
\* returns (the name without that run, the numeric value of the run, the
\* number of leading zeros in the run, counting a run of only zeros fully); a
\* name with no trailing digits returns (name, 0, 0), and a run whose value
\* does not fit in 64 bits returns the whole name as prefix with value 0.
C23_NameKeySplitsAtTrailingDigits ==
    IsSet(keys) => (keys.lhs = SplitKey(names[1]) /\ keys.rhs = SplitKey(names[2]))

\* the keys of a name that ends in zeros only and of a name whose digits do
\* not fit in 64 bits
C23_Witness ==
    /\ IsSet(keys)
    /\ names[1] = <<"F", "0", "0">>
    /\ keys.lhs = <<(<<"F">>), (<<"0">>), 2>>
    /\ TrailingRun(names[2]) > 0
    /\ keys.rhs[1] = names[2]

----------------------------------------------------------------------------
(* C24. The order that name_key gives to names.                            *)

\* the name without its trailing digits, the value of these digits (0 when
\* there are none) and the number of their leading zeros
NaturalKey(name) ==
    LET r == TrailingRun(name)
        run == Suffix(name, Len(name) - r)
    IN  <<SubSeq(name, 1, Len(name) - r),
          IF r = 0 THEN <<"0">> ELSE RunValue(run),
          IF r = 0 THEN 0 ELSE LeadingZeros(run)>>

\* prefix first, then the numeric value, then fewer leading zeros first
PrefixValueZeros(k1, k2) ==
    CASE StrCmp(k1[1], k2[1]) # "Equal" -> StrCmp(k1[1], k2[1])
      [] StrCmp(k1[1], k2[1]) = "Equal" /\ U64Cmp(k1[2], k2[2]) # "Equal" -> U64Cmp(k1[2], k2[2])
      [] OTHER -> UsizeCmp(k1[3], k2[3])

NaturalCmp(n1, n2) == PrefixValueZeros(NaturalKey(n1), NaturalKey(n2))

\* the trailing digits of a name fit in 64 bits
Fits(name) ==
    TrailingRun(name) = 0 \/ FitsU64(Suffix(name, Len(name) - TrailingRun(name)))

\* C24 as stated: ordering names by name_key is a natural order: by non-digit
\* prefix first, then by the numeric value of the trailing digits, then by the
\* number of leading zeros with fewer first, a name without digits preceding
\* the same prefix followed by zeros.
C24_NaturalOrder ==
    ordering # "NotYet" => ordering = NaturalCmp(names[1], names[2])

\* C24: among names whose trailing digits fit in 64 bits, the order by
\* name_key is that natural order; a name whose trailing digits do not fit is
\* ordered with its whole name as prefix and the value 0.
C24_NaturalOrderOfFittingNames ==
    ordering # "NotYet" =>
        /\ (Fits(names[1]) /\ Fits(names[2])) => ordering = NaturalCmp(names[1], names[2])
        /\ ordering = PrefixValueZeros(SplitKey(names[1]), SplitKey(names[2]))

\* Fruit01 after Fruit1 and before Fruit2: the value decides before the zeros
C24_Witness ==
    /\ ordering = "Less"
    /\ names[1] = <<"F", "0", "2">>
    /\ names[2] = <<"F", "2", "0">>

----------------------------------------------------------------------------
(* C25. The merge of the crates' indexes into search-index.js.             *)

\* the crates that were built
BuiltCrates == {built[i].krate : i \in DOMAIN built}

\* the index of the last build of a crate
LatestIndex(name) ==
    LET last == CHOOSE i \in DOMAIN built :
                    /\ built[i].krate = name
                    /\ \A j \in DOMAIN built : built[j].krate = name => j <= i
    IN  built[last].search_index

\* the order of crate names: character by character, a prefix first
RECURSIVE NameBefore(_, _)
NameBefore(n1, n2) ==
    IF n1 = <<>> THEN n2 # <<>>
    ELSE IF n2 = <<>> THEN FALSE
    ELSE IF Head(n1) = Head(n2) THEN NameBefore(Tail(n1), Tail(n2))
    ELSE PieceByte(Head(n1)) < PieceByte(Head(n2))

\* the built crates in the order of their names
CratesInOrder ==
    CHOOSE seq \in [1..Cardinality(BuiltCrates) -> BuiltCrates] :
        \A i, j \in DOMAIN seq : i < j => NameBefore(seq[i], seq[j])

\* the file with one record per built crate, the latest, sorted by crate
MergedFile ==
    <<FirstLine>>
    \o [i \in 1..Cardinality(BuiltCrates) |->
            IndexLine(CratesInOrder[i], LatestIndex(CratesInOrder[i]))]
    \o <<LastLine>>

\* C25: merging per-unit index records into the shared search index is
\* reproducible: the file holds exactly one record per unit, rebuilding a unit
\* replaces its previous record and keeps every other unit's record, records
\* are sorted by unit, and the content is the same for every order in which
\* the units are built.
C25_MergeReproducible ==
    built # <<>> => index_file = MergedFile

\* crate a was built, then crate ab, then crate a again with another index
C25_Witness ==
    /\ Len(built) = 3
    /\ built[1] = [krate |-> <<"a">>, search_index |-> "v1"]
    /\ built[2].krate = <<"a", "b">>
    /\ built[3] = [krate |-> <<"a">>, search_index |-> "v2"]
    /\ Len(index_file) = 4

----------------------------------------------------------------------------
(* C26. Builders that run at the same time.                                *)

\* the builders that rewrote the file
Wrote == {b \in Builders : builders[b].pc \in {"written", "done"}}

\* the file has a record of the crate of builder b, written by a builder of
\* that crate
HasRecordOf(b) ==
    \E i \in DOMAIN index_file : \E c \in Wrote :
        /\ builders[c].krate = builders[b].krate
        /\ index_file[i] = IndexLine(builders[c].krate, builders[c].search_index)

\* C26: concurrent builders do not lose updates: each builder reads the
\* existing records, adds its own and rewrites the file while it holds the
\* exclusive lock of the directory, so the file contains the record of every
\* builder that has finished.
C26_NoLostUpdate ==
    /\ \A b \in Builders :
        builders[b].pc \in {"locked", "collected", "written"} => lock = b
    /\ \A b \in Wrote : HasRecordOf(b)

\* three builders of three crates have finished, and the file has the record
\* of each
C26_Witness ==
    /\ \A b \in Builders : builders[b].pc = "done"
    /\ \A b, c \in Builders : b # c => builders[b].krate # builders[c].krate
    /\ \A b \in Builders :
        \E i \in DOMAIN index_file :
            index_file[i] = IndexLine(builders[b].krate, builders[b].search_index)

----------------------------------------------------------------------------
(* C27. The phases of run().                                               *)

\* fold_crate has returned the crate
CrawlReturned == visits # <<>> /\ frames = <<>> /\ krate.some

\* no iteration of the orphan loop has run
NoOrphanResolved == pc = "crawl" /\ cursor = 1

\* no iteration of the compaction loop has run
NoSlotAssigned ==
    /\ nodeid_to_pathid = EmptyMap
    /\ crate_paths = <<>>
    /\ crate_items = <<>>
    /\ \A i \in DOMAIN search_index : ~search_index[i].parent_idx.some

\* every orphan whose type has a path has its entry in the index
OrphansResolved ==
    \A k \in DOMAIN orphan_impl_items :
        LET o == orphan_impl_items[k]
        IN  OrphanResolves(o, paths) =>
                \E i \in DOMAIN search_index :
                    /\ search_index[i].name = o.item.name.v
                    /\ search_index[i].ty = type_(o.item)
                    /\ search_index[i].parent = Some(o.did)

\* every entry of the index went through the compaction loop
Compacted ==
    /\ Len(crate_items) = Len(search_index)
    /\ \A i \in DOMAIN search_index :
        search_index[i].parent.some => search_index[i].parent_idx.some

\* C27: no orphan is resolved and no parent slot is assigned before the crawl
\* of the whole tree has returned, and the rendering and sharing of the
\* tables starts only after orphan resolution and compaction have finished.
C27_PhaseOrder ==
    /\ pc = "crawl" => (NoOrphanResolved /\ NoSlotAssigned)
    /\ pc # "crawl" => CrawlReturned
    /\ pc = "orphans" => NoSlotAssigned
    /\ pc = "compact" => OrphansResolved
    /\ pc = "done" => (OrphansResolved /\ Compacted)

\* build_index has returned an index with a resolved orphan and a parent slot
C27_Witness ==
    /\ pc = "done"
    /\ \E k \in DOMAIN orphan_impl_items : OrphanResolves(orphan_impl_items[k], paths)
    /\ crate_paths # <<>>

----------------------------------------------------------------------------
(* C28. The tables after the crawl.                                        *)

\* a step leaves the tables of the crawl as they are
TablesUnchanged ==
    /\ paths' = paths
    /\ impls' = impls
    /\ implementors' = implementors
    /\ traits' = traits

\* a step changes the index list only by appending entries and by filling
\* the parent slot or blanking the path of an entry
IndexOnlyCompleted ==
    /\ Len(search_index') >= Len(search_index)
    /\ \A i \in DOMAIN search_index :
        /\ [search_index'[i] EXCEPT !.parent_idx = None, !.path = ""]
              = [search_index[i] EXCEPT !.parent_idx = None, !.path = ""]
        /\ search_index'[i].path \in {search_index[i].path, ""}

\* C28: after the crawl has returned, the Declaration Table (paths), the
\* Implementation Registry (impls), the Implementor-by-trait map and the Trait
\* Table are never modified again: orphan resolution and compaction change
\* only the index list (appended entries, parent-slot and blanked-path
\* fields).
C28_TablesFrozenAfterCrawl ==
    [][pc # "crawl" => (TablesUnchanged /\ IndexOnlyCompleted)]_vars

\* build_index has returned: the tables are filled, an entry was appended for
\* an orphan, a path was blanked and a parent slot filled
C28_Witness ==
    /\ pc = "done"
    /\ DOMAIN paths # {}
    /\ DOMAIN impls # {}
    /\ DOMAIN implementors # {}
    /\ \E k \in DOMAIN orphan_impl_items : OrphanResolves(orphan_impl_items[k], paths)
    /\ \E i \in DOMAIN search_index :
        search_index[i].parent_idx.some /\ search_index[i].path = ""

----------------------------------------------------------------------------
(* C29. The records of the registry are implementations.                   *)

\* the records stored in the registry
RegistryRecords == UNION {{impls[did][k] : k \in DOMAIN impls[did]} : did \in DOMAIN impls}

\* inner_impl is fatal for a record of a declaration that is not an impl, and
\* returns the impl otherwise
InnerImplFatalForNonImpl ==
    \A i \in DOMAIN visits :
        LET record == [impl_item |-> visits[i].item, items |-> <<>>]
        IN  IF visits[i].item.inner = "ImplItem"
            THEN inner_impl(record) = [panic |-> FALSE, impl_ |-> visits[i].item]
            ELSE inner_impl(record) = [panic |-> TRUE]

\* C29: a registry record whose declaration is not of implementation kind is a
\* fatal error (inner_impl aborts and returns nothing), and this fatal path is
\* unreachable for registries produced by the crawl, because every record
\* stored in the Implementation Registry wraps an implementation-kind
\* declaration.
C29_RegistryRecordsAreImpls ==
    /\ InnerImplFatalForNonImpl
    /\ \A record \in RegistryRecords :
        /\ record.impl_item.inner = "ImplItem"
        /\ ~inner_impl(record).panic

\* the crawl has returned a registry with an impl that has a member
C29_Witness ==
    /\ pc # "crawl"
    /\ \E record \in RegistryRecords : record.items # <<>>

----------------------------------------------------------------------------
(* C30. The stacks and flags across a visit.                               *)

\* the step is the return of a visit
VisitReturns == pc = "crawl" /\ frames # <<>> /\ Len(frames') < Len(frames)

\* the step is the entry of the visit of a module
ModuleEntered ==
    /\ pc = "crawl"
    /\ Len(frames') > Len(frames)
    /\ Last(frames').item.inner = "ModuleItem"

\* the stacks and flags after the step are those that the returning visit found
RestoredToEntry ==
    LET entry == Last(frames).entry
    IN  /\ stack' = entry.stack
        /\ parent_stack' = entry.parent_stack
        /\ stripped_mod' = entry.stripped_mod
        /\ parent_is_trait_impl' = entry.parent_is_trait_impl

\* C30: when the visit of any declaration returns, the path-component stack,
\* the type-context stack, the stripped flag and the parent-is-trait-impl flag
\* all equal their values at entry to that visit; visiting a module leaves the
\* type-context stack unchanged, and after the whole crawl the path stack
\* holds only the root name and the type-context stack is empty.
C30_StackDiscipline ==
    [][/\ VisitReturns => RestoredToEntry
       /\ ModuleEntered => parent_stack' = parent_stack
       /\ (pc = "crawl" /\ pc' # "crawl") => (stack' = <<KrateName>> /\ parent_stack' = <<>>)]_vars

\* the crawl has returned from a tree with a module below the root and a trait
\* impl with a member
C30_Witness ==
    /\ pc # "crawl"
    /\ stack = <<KrateName>>
    /\ parent_stack = <<>>
    /\ \E i \in DOMAIN visits :
        /\ visits[i].item.inner = "ModuleItem"
        /\ Len(visits[i].stack) > 1
    /\ \E i \in DOMAIN visits :
        /\ visits[i].item.inner = "ImplItem"
        /\ visits[i].item.trait_.some
    /\ \E i \in DOMAIN visits : visits[i].trait_impl

----------------------------------------------------------------------------
(* C31. Entries of the same path in the list that is compacted.            *)

\* the orphan loop is over and no iteration of the compaction loop has run
HandedToCompactor == pc = "compact" /\ cursor = 1

\* the entries of the same path follow one another
SamePathAdjacent ==
    \A i, j \in DOMAIN search_index :
        (i < j /\ search_index[i].path = search_index[j].path) =>
            \A m \in i..j : search_index[m].path = search_index[i].path

\* no path is written twice in the serialized items
EachPathSerializedOnce ==
    \A i, j \in DOMAIN crate_items :
        (i < j /\ crate_items[i].path # "") => crate_items[i].path # crate_items[j].path

\* C31 as stated: in the index list handed to the compactor (draft entries in
\* depth-first order followed by promoted orphans), all entries that have the
\* same full path are adjacent, so each distinct path is serialized non-blank
\* exactly once.
C31_SamePathAdjacent ==
    /\ HandedToCompactor => SamePathAdjacent
    /\ pc = "done" => EachPathSerializedOnce

\* the path that a reader of the serialized items holds after item i: the last
\* path before or at i that is not blank
PathReadAt(items, i) ==
    LET written == {j \in 1..i : items[j].path # ""}
    IN  IF written = {} THEN ""
        ELSE items[CHOOSE j \in written : \A l \in written : l <= j].path

\* the step is an iteration of the compaction loop that serializes an entry
EntrySerialized == pc = "compact" /\ Len(crate_items') = Len(crate_items) + 1

\* C31: entries of the same full path are not always adjacent in the list
\* handed to the compactor; the path of an entry is serialized blank exactly
\* when it is the path of the entry before it, so each run of consecutive
\* entries of the same path is serialized non-blank exactly once, at its start.
C31_PathSerializedOncePerRun ==
    [][EntrySerialized =>
        LET path == search_index[cursor].path
            serialized == crate_items'[cursor].path
        IN  IF cursor > 1 /\ path = PathReadAt(crate_items, cursor - 1)
            THEN serialized = ""
            ELSE serialized = path /\ path # ""]_vars

\* the serialized list has a run of two entries of one path, the second blank,
\* and that path once more after an entry of another path
C31_Witness ==
    /\ pc = "done"
    /\ \E i, j \in DOMAIN crate_items :
        /\ i + 1 < j
        /\ crate_items[i].path # ""
        /\ crate_items[i + 1].path = ""
        /\ crate_items[j].path = crate_items[i].path


----------------------------------------------------------------------------
(* C32                                                                     *)

\* C32: the second rendering of render_text starts from exactly the used-id
\* map that the first rendering started from, whatever ids the first rendering
\* derived, and when render_text has returned the map is the starting map
\* updated by the derive_id calls of the second rendering alone.
C32_RendersTwiceFromSameIds ==
    /\ text.pc \in {"pulldown", "returned"} => /\ Len(text.met) = 2
                                               /\ text.met[2] = text.met[1]
    /\ text.pc = "pulldown" /\ text.candidates[3] = <<>> => used_ids = text.met[1]
    /\ text.pc = "returned" => used_ids = UsedAfterAll(text.met[1], text.candidates[3])

\* C32 witness: render_text has returned, the first rendering derived ids that
\* the second did not, and the final map lacks what the first alone put there.
C32_Witness ==
    /\ text.pc = "returned"
    /\ text.candidates[2] # <<>>
    /\ text.candidates[3] # <<>>
    /\ UsedAfterAll(text.met[1], text.candidates[2]) # used_ids
    /\ \E id \in DOMAIN UsedAfterAll(text.met[1], text.candidates[2]) : id \notin DOMAIN used_ids

----------------------------------------------------------------------------
(* C33                                                                     *)

\* C33: the assertion of IndexItem::to_json never fails in build_index: every
\* entry that the compaction serializes has a parent slot exactly when it has a
\* parent identifier.
C33_AssertionHolds ==
    /\ pc # "assert"
    /\ \A i \in 1..Len(crate_items) :
        /\ ~AssertFails(search_index[i])
        /\ search_index[i].parent.some <=> crate_items[i].parent_idx.some

\* C33 witness: the compaction has serialized an entry with a parent and a
\* slot, one that came from an orphan, and an entry with neither.
C33_Witness ==
    /\ pc = "done"
    /\ \E i, j \in 1..Len(crate_items) :
        /\ search_index[i].parent.some /\ crate_items[i].parent_idx.some
        /\ ~search_index[j].parent.some /\ ~crate_items[j].parent_idx.some
    /\ \E o \in 1..Len(orphan_impl_items) : OrphanResolves(orphan_impl_items[o], paths)

----------------------------------------------------------------------------
(* C34                                                                     *)

\* fold_item has just visited an item
Visited == Len(visits') = Len(visits) + 1

\* the visit is one of a named, non-stripped declaration other than the root
\* module, outside stripped modules, and not one of an associated const or
\* type of a trait impl
VisibleDeclaration(v) ==
    /\ v.item.name.some
    /\ v.item.inner # "StrippedItem"
    /\ v.item.def_id # CRATE_DEF_INDEX
    /\ ~v.stripped_mod
    /\ ~(v.trait_impl /\ v.item.inner \in {"AssociatedConstItem", "AssocTypedefItem"})

\* the visit appended the entry of its item to the search index
YieldsEntry(v) ==
    /\ Len(search_index') = Len(search_index) + 1
    /\ Last(search_index').name = v.item.name.v
    /\ Last(search_index').ty = type_(v.item)
    /\ SubSeq(search_index', 1, Len(search_index)) = search_index

\* the root module is not in the index (no other declaration has an empty name)
RootNotIndexed ==
    /\ \A i \in DOMAIN search_index : search_index[i].name # ""
    /\ \A i \in DOMAIN crate_items : crate_items[i].name # ""

\* C34 as stated: the root module is never in the index, and the visit of every
\* other named, non-stripped declaration outside stripped modules, associated
\* consts and types of trait impls apart, appends an entry to the index.
C34_EveryDeclarationIndexed ==
    /\ []RootNotIndexed
    /\ [][Visited /\ VisibleDeclaration(Last(visits')) => YieldsEntry(Last(visits'))]_vars

\* C34 as it holds: the root module is never in the index; the visit of such a
\* declaration appends an entry, except that a method or associated const
\* visited with an empty parent stack yields nothing, and one whose owning type
\* has no path at the time of the visit yields an orphan and no entry.
C34_DeclarationIndexedUnlessMemberWithoutPath ==
    /\ []RootNotIndexed
    /\ [][Visited /\ VisibleDeclaration(Last(visits')) =>
            LET v == Last(visits')
                member == v.item.inner \in {"MethodItem", "AssociatedConstItem"}
            IN  IF member /\ ~v.parent.some
                THEN /\ search_index' = search_index
                     /\ orphan_impl_items' = orphan_impl_items
                ELSE IF member /\ v.parent.v \notin DOMAIN paths
                THEN /\ search_index' = search_index
                     /\ orphan_impl_items' =
                            Append(orphan_impl_items, [did |-> v.parent.v, item |-> v.item])
                ELSE /\ YieldsEntry(v)
                     /\ orphan_impl_items' = orphan_impl_items]_vars

\* C34 witness: the crawl has visited the root module, a struct that got its
\* entry, a method that was set aside as an orphan and a method without a
\* parent that got nothing.
C34_Witness ==
    /\ pc = "crawl"
    /\ RootNotIndexed
    /\ visits # <<>> /\ visits[1].item.def_id = CRATE_DEF_INDEX
    /\ \E i \in DOMAIN search_index : search_index[i].ty = "Struct"
    /\ orphan_impl_items # <<>>
    /\ \E i \in DOMAIN visits :
        /\ visits[i].item.inner = "MethodItem"
        /\ ~visits[i].stripped_mod
        /\ ~visits[i].parent.some

----------------------------------------------------------------------------
(* C35                                                                     *)

\* the item being visited when fold_item is entered is a trait impl
InTraitImpl ==
    /\ frames # <<>>
    /\ Last(frames).item.inner = "ImplItem"
    /\ Last(frames).item.trait_.some

\* fold_item has just returned from the visit of an impl block
ImplLeft ==
    /\ pc = "crawl"
    /\ Len(frames') = Len(frames) - 1
    /\ Last(frames).item.inner = "ImplItem"

\* C35: the visit of an associated const or associated type of a trait impl
\* adds nothing to the search index and nothing to the orphans; the visit of a
\* nominal type sets parent_is_trait_impl to false for its body; and when an
\* impl block is left the flag has the value it had when the block was entered.
C35_TraitImplAssociatedItemsSkipped ==
    [][/\ (Visited /\ InTraitImpl
              /\ Last(visits').item.inner \in {"AssociatedConstItem", "AssocTypedefItem"})
            => /\ search_index' = search_index
               /\ orphan_impl_items' = orphan_impl_items
       /\ (Visited /\ Last(visits').item.inner \in
                        {"TraitItem", "EnumItem", "ForeignTypeItem", "StructItem", "UnionItem"})
            => parent_is_trait_impl' = FALSE
       /\ ImplLeft => parent_is_trait_impl' = Last(frames).entry.parent_is_trait_impl]_vars

\* C35 witness: a trait impl has been left after the visits of its associated
\* const and its associated type, and neither is in the index or among the
\* orphans; a struct has been visited as well.
C35_Witness ==
    /\ pc = "crawl"
    /\ Len(frames) = 1
    /\ ~parent_is_trait_impl
    /\ \E i, j, k \in DOMAIN visits :
        /\ visits[i].item.inner = "ImplItem" /\ visits[i].item.trait_.some
        /\ j = i + 1 /\ k = i + 2
        /\ {visits[j].item.inner, visits[k].item.inner} =
                {"AssociatedConstItem", "AssocTypedefItem"}
        /\ visits[j].trait_impl /\ visits[k].trait_impl
        /\ \A e \in DOMAIN search_index :
                search_index[e].name \notin {visits[j].item.name.v, visits[k].item.name.v}
        /\ \A o \in DOMAIN orphan_impl_items :
                orphan_impl_items[o].item \notin {visits[j].item, visits[k].item}
    /\ \E i \in DOMAIN visits : visits[i].item.inner = "StructItem"

----------------------------------------------------------------------------
(* C36                                                                     *)

\* fold_item has just visited a variant outside a stripped module
VariantVisited ==
    /\ Visited
    /\ Last(visits').item.inner = "VariantItem"
    /\ ~Last(visits').stripped_mod

\* C36: every visit of a variant outside a stripped module, public or not and
\* recorded before or not, writes the variant into paths with kind Enum and the
\* stack without the variant's name, which is the stack that ends with the name
\* of the enum being visited.
C36_VariantRecordedAtEnum ==
    [][VariantVisited =>
        LET v == Last(visits')
            enum == Last(frames).item
        IN  /\ enum.inner = "EnumItem"
            /\ v.item.def_id \in DOMAIN paths'
            /\ paths'[v.item.def_id] = [fqp |-> Front(v.stack), ty |-> "Enum"]
            /\ Front(v.stack) = stack
            /\ Last(stack) = enum.name.v]_vars

\* C36 witness: a variant that is not public and already had a path has been
\* visited again at another place, and its path is the one of the later visit.
C36_Witness ==
    /\ pc = "crawl"
    /\ \E i, j \in DOMAIN visits :
        /\ i < j
        /\ visits[i].item.inner = "VariantItem" /\ ~visits[i].stripped_mod
        /\ visits[j].item = visits[i].item /\ ~visits[j].stripped_mod
        /\ visits[j].stack # visits[i].stack
        /\ j = Len(visits)
        /\ visits[j].item.def_id \notin access_levels
        /\ paths[visits[j].item.def_id] = [fqp |-> Front(visits[j].stack), ty |-> "Enum"]

----------------------------------------------------------------------------
(* C37                                                                     *)

\* the calls of emit_source that failed or panicked
FailedCalls == {i \in DOMAIN sources.calls : sources.calls[i].outcome # "Ok"}

\* C37: once a call of emit_source has failed, include_sources is false in
\* every later state and emit_source is not called again, so that no further
\* file is created; and no source file is handed to the file system twice, so
\* that each is emitted at most once.
C37_FirstFailureDisablesSources ==
    /\ [](/\ FailedCalls # {} => ~sources.include_sources
          /\ \A i \in FailedCalls : i = Len(sources.calls)
          /\ \A i, j \in DOMAIN sources.calls :
                sources.calls[i].filename = sources.calls[j].filename => i = j
          /\ sources.local_sources =
                {sources.calls[i].filename : i \in DOMAIN sources.calls \ FailedCalls})
    /\ [][~sources.include_sources =>
            /\ ~sources'.include_sources
            /\ sources'.calls = sources.calls
            /\ sources'.local_sources = sources.local_sources]_vars

\* C37 witness: a file was emitted, a later item of the same file was folded,
\* then the emission of a second file failed after its output was created, and
\* a local item with a real file was folded after that.
C37_Witness ==
    /\ Len(sources.calls) = 2
    /\ sources.calls[1].outcome = "Ok"
    /\ sources.calls[2].outcome = "RenderErr"
    /\ ~sources.include_sources
    /\ Len(sources.folded) = 4
    /\ sources.folded[2] = sources.folded[1]
    /\ sources.folded[4].is_local /\ is_real(sources.folded[4].filename)
    /\ sources.folded[4].filename \notin sources.local_sources

----------------------------------------------------------------------------
(* C38                                                                     *)

\* C38: paths.get(&nodeid).unwrap() of the compaction never fails: every entry
\* of the search index that has a parent, pushed by the crawl or made from an
\* orphan, has that parent in paths, at the crawl and when its slot is assigned.
C38_ParentsHavePaths ==
    /\ pc # "panic"
    /\ \A i \in DOMAIN search_index :
        search_index[i].parent.some => search_index[i].parent.v \in DOMAIN paths
    /\ (pc = "compact" /\ cursor <= Len(search_index)) =>
            ~UnwrapFails(search_index[cursor], nodeid_to_pathid, paths)

\* C38 witness: the compaction has assigned slots to a member that the crawl
\* indexed and to one that came from an orphan.
C38_Witness ==
    /\ pc = "done"
    /\ \E o \in DOMAIN orphan_impl_items :
        /\ OrphanResolves(orphan_impl_items[o], paths)
        /\ \E i, j \in DOMAIN search_index :
            /\ i < j
            /\ search_index[i].parent.some /\ search_index[i].parent_idx.some
            /\ search_index[j].parent = Some(orphan_impl_items[o].did)
            /\ search_index[j].name = orphan_impl_items[o].item.name.v
            /\ search_index[j].parent_idx.some

----------------------------------------------------------------------------
(* C39                                                                     *)

\* the entry is one of a member of an impl block or of a trait body that
\* fold_item attributes through paths
AttributedMember(entry) ==
    entry.parent.some /\ entry.ty \in {"Method", "AssociatedConst"}

\* the path that the orphan loop gives to a member of the type did
PromotedPath(did) == Join(Front(paths[did].fqp), "::")

\* C39: when the index is handed to the compaction, every entry of a method or
\* associated const whose owning type has a path carries the path and parent
\* that the promotion of an orphan would give it, so that an entry indexed at
\* the crawl equals the one it would be had its type been visited later,
\* whatever the kind of the type.
C39_AttributionOrderIndependent ==
    HandedToCompactor =>
        \A i \in DOMAIN search_index :
            (AttributedMember(search_index[i]) /\ search_index[i].parent.v \in DOMAIN paths)
                => search_index[i].path = PromotedPath(search_index[i].parent.v)

----------------------------------------------------------------------------
(* C40                                                                     *)

\* what the compaction has to keep of an entry
Kept(e) == [ty |-> e.ty, name |-> e.name, desc |-> e.desc]
KeptOf(entries) == [i \in DOMAIN entries |-> Kept(entries[i])]

\* the entries of the orphans that resolve, in the order of their recording
KeptOfResolvable ==
    LET Resolves(o) == OrphanResolves(o, paths)
        resolvable == SelectSeq(orphan_impl_items, Resolves)
    IN  [i \in DOMAIN resolvable |-> Kept(OrphanItem(resolvable[i], paths))]

\* C40: build_index keeps the draft entries in their order and appends one
\* entry per resolvable orphan in recording order; the compaction serializes
\* one item per entry, in that order, with the kind, name and description of
\* the entry, and changes neither of them in the index.
C40_CompactionPreservesIndex ==
    /\ [](pc \in {"compact", "done"} =>
            /\ Len(crate_items) <= Len(search_index)
            /\ KeptOf(crate_items) = SubSeq(KeptOf(search_index), 1, Len(crate_items))
            /\ Len(search_index) >= Len(KeptOfResolvable)
            /\ SubSeq(KeptOf(search_index),
                      Len(search_index) - Len(KeptOfResolvable) + 1, Len(search_index))
                    = KeptOfResolvable)
    /\ [](pc = "done" => Len(crate_items) = Len(search_index))
    /\ [][pc = "orphans" =>
            /\ Len(search_index') \in {Len(search_index), Len(search_index) + 1}
            /\ SubSeq(search_index', 1, Len(search_index)) = search_index]_vars
    /\ [][pc = "compact" =>
            /\ KeptOf(search_index') = KeptOf(search_index)
            /\ Len(crate_items') \in {Len(crate_items), Len(crate_items) + 1}
            /\ SubSeq(crate_items', 1, Len(crate_items)) = crate_items]_vars

\* C40 witness: an index of a struct, its undocumented field and a method that
\* was an orphan has been serialized: three items with the descriptions of
\* their entries, the method last.
C40_Witness ==
    /\ pc = "done"
    /\ Len(crate_items) >= 3
    /\ Len(KeptOfResolvable) = 1
    /\ Kept(crate_items[Len(crate_items)]) = KeptOfResolvable[1]
    /\ crate_items[Len(crate_items)].desc # ""
    /\ \E i, j \in DOMAIN crate_items :
        /\ i < j /\ j < Len(crate_items)
        /\ crate_items[i].ty = "Struct" /\ crate_items[i].desc = "About S in short."
        /\ crate_items[j].ty = "StructField" /\ crate_items[j].desc = ""

============================================================================
